---- MODULE Spec2Model ----
(***************************************************************************)
(* edm-store: the global tile lattice (GlobalTileInfo), its window         *)
(* planners, and the SlicedBand read/write path over a backend and the     *)
(* process-wide tile cache.                                                *)
(*                                                                         *)
(* Coordinates and scales are integers; every quotient the code computes   *)
(* in floating point is kept as an exact rational (numerator, denominator) *)
(* and floored, ceiled, truncated or rounded the way the code does it.     *)
(***************************************************************************)
EXTENDS Integers, Sequences, FiniteSets, TLC

VARIABLES
    gti,        \* the GlobalTileInfo object of the open band
    out,        \* what the last lattice call returned (or raised)
    backend,    \* tile blobs on the storage backend: tile index -> blob
    cache,      \* global_cache: access path -> [blob, expire]
    pending,    \* daemon cache_tile threads started and not yet finished
    now,        \* int(time.time())
    ret,        \* what the last band call returned (or raised)
    stored,     \* per tile, the array the last successful write put there
    nops,       \* number of band calls made so far
    meta        \* the band's metadata flags

vars == <<gti, out, backend, cache, pending, now, ret, stored, nops, meta>>
bandVars == <<backend, cache, pending, now, ret, stored, nops, meta>>

----------------------------------------------------------------------------
(* Exact arithmetic on quotients n/d, d # 0.                               *)

Abs(n) == IF n < 0 THEN -n ELSE n

Max2(a, b) == IF a >= b THEN a ELSE b

Min2(a, b) == IF a <= b THEN a ELSE b

\* math.floor(n / d)
FloorQ(n, d) == IF d > 0 THEN n \div d ELSE (-n) \div (-d)

\* math.ceil(n / d)
CeilQ(n, d) == -FloorQ(-n, d)

\* int(n / d): truncation toward zero
TruncQ(n, d) == IF FloorQ(n, d) >= 0 THEN FloorQ(n, d) ELSE CeilQ(n, d)

\* _rounding(n / d) of a float: a first decimal digit 5 bumps the number by
\* 0.1 before round(); no tie is left for round() to break.
RoundingQ(n, d) ==
    LET a     == Abs(n)
        b     == Abs(d)
        neg   == (n < 0) # (d < 0)
        digit == ((10 * a) \div b) % 10
    IN  IF digit = 5
        THEN IF neg THEN -(a \div b) ELSE (a \div b) + 1
        ELSE IF neg THEN -((2 * a + b) \div (2 * b)) ELSE (2 * a + b) \div (2 * b)

----------------------------------------------------------------------------
(* GlobalTileInfo                                                          *)

PyramidBase == 256

\* _cal_tile_start_index with int() truncation also left of the origin
CalTileStartIndexTruncating(l_point, ori_point, tile_size, scala) ==
    LET n == l_point - ori_point
        d == Abs(tile_size * scala)
    IN  IF scala > 0 THEN TruncQ(n, d) ELSE -CeilQ(n, d)

\* _cal_tile_start_index
CalTileStartIndex(l_point, ori_point, tile_size, scala) ==
    LET n == l_point - ori_point
        d == Abs(tile_size * scala)
    IN  IF scala > 0
        THEN IF n < 0 THEN -CeilQ(Abs(n), d) ELSE TruncQ(Abs(n), d)
        ELSE -CeilQ(n, d)

RECURSIVE FactorList(_, _)
\* the factors appended by the loop of factors(): cur, 2 cur, ... while base > 256
FactorList(m, cur) ==
    IF m > PyramidBase * cur THEN <<cur>> \o FactorList(m, 2 * cur) ELSE <<>>

\* GlobalTileInfo.factors(has=True)
Factors(tileSize, reSize, rangeX, rangeY, scalaX, scalaY) ==
    LET m  == Max2(reSize * rangeX, reSize * rangeY)
        fs == <<1>> \o FactorList(m, 2)
    IN  [factors      |-> fs,
         scalaXList   |-> [k \in DOMAIN fs |-> scalaX * fs[k]],
         scalaYList   |-> [k \in DOMAIN fs |-> scalaY * fs[k]],
         tileSizeList |-> [k \in DOMAIN fs |-> TruncQ(tileSize, fs[k])]]

\* the first tile placed on multiples of the tile span, the phase dropped
FirstTileLeftUnphased(ori, tileStart, tileSize, scala) == tileStart * (tileSize * scala)

\* firstTileLeftX computed from oriX (the sub-pixel phase), not from lx
FirstTileLeft(ori, tileStart, tileSize, scala) == ori + tileStart * (tileSize * scala)

\* GlobalTileInfo.__init__(transform, xSize, ySize, tileSize)
GlobalTileInfo(lx, scalaX, ly, scalaY, xSize, ySize, tileSize) ==
    LET rx     == lx + xSize * scalaX
        ry     == ly + ySize * scalaY
        oriX   == lx % scalaX
        oriY   == ly % Abs(scalaY)
        startX == CalTileStartIndex(lx, oriX, tileSize, scalaX)
        startY == CalTileStartIndex(ly, oriY, tileSize, scalaY)
        firstX == FirstTileLeft(oriX, startX, tileSize, scalaX)
        firstY == FirstTileLeft(oriY, startY, tileSize, scalaY)
        rangeX == CeilQ(rx - firstX, tileSize * scalaX)
        rangeY == CeilQ(ry - firstY, tileSize * scalaY)
        f      == Factors(tileSize, tileSize, rangeX, rangeY, scalaX, scalaY)
    IN  [lx |-> lx, ly |-> ly, rx |-> rx, ry |-> ry,
         scalaX |-> scalaX, scalaY |-> scalaY,
         xSize |-> xSize, ySize |-> ySize,
         tileSize |-> tileSize, reSize |-> tileSize,
         oriX |-> oriX, oriY |-> oriY,
         firstTileLeftX |-> firstX, firstTileLeftY |-> firstY,
         rangeX |-> rangeX, rangeY |-> rangeY,
         tileXEnd |-> rangeX - 1, tileYEnd |-> rangeY - 1,
         factors |-> f.factors, scalaXList |-> f.scalaXList,
         scalaYList |-> f.scalaYList, tileSizeList |-> f.tileSizeList]

\* the tile counts resize() derives: int((tileEnd + 1) * times), times = tileSize / reSize
ResizedRange(g, tileEnd, t) == TruncQ((tileEnd + 1) * g.tileSize, t)

\* GlobalTileInfo.resize(tileSize): reSize is assigned before the check
ResizeRaises(g, t) == g.tileSize < t

ResizeGti(g, t) ==
    IF ResizeRaises(g, t)
    THEN [g EXCEPT !.reSize = t]
    ELSE [g EXCEPT !.reSize = t,
                   !.rangeX = ResizedRange(g, g.tileXEnd, t),
                   !.rangeY = ResizedRange(g, g.tileYEnd, t)]

\* a writeable() that accepts every lattice resize() accepted
WriteableAnySize(g) == g.tileSize >= g.reSize

\* GlobalTileInfo.writeable()
Writeable(g) == g.tileSize = g.reSize

\* GlobalTileInfo.get_tile_info(x, y): (transform, shape)
TileInfo(g, x, y) ==
    [ox |-> g.firstTileLeftX + x * g.reSize * g.scalaX, sx |-> g.scalaX,
     oy |-> g.firstTileLeftY + y * g.reSize * g.scalaY, sy |-> g.scalaY,
     shape |-> <<g.reSize, g.reSize>>]

\* GlobalTileInfo._get_x / _get_y
GetX(g, x) == g.firstTileLeftX + x * g.scalaX * g.tileSize

GetY(g, y) == g.firstTileLeftY + y * g.scalaY * g.tileSize

\* GlobalTileInfo.get_grid_info() with no arguments
GridInfo(g) ==
    [ox |-> GetX(g, 0), sx |-> g.scalaX, oy |-> GetY(g, 0), sy |-> g.scalaY,
     shape |-> <<g.reSize * g.rangeX, g.reSize * g.rangeY>>]

\* GlobalTileInfo.get_tiles(): x outer, y inner
GetTiles(g) ==
    [i \in 1..(g.rangeX * g.rangeY) |->
        <<(i - 1) \div g.rangeY, (i - 1) % g.rangeY>>]

\* get_tile_index_and_offset with the two window offsets exchanged
TileIndexAndOffsetSwapped(g, x, y) ==
    [tile   |-> <<TruncQ(x * g.reSize, g.tileSize), TruncQ(y * g.reSize, g.tileSize)>>,
     window |-> <<(y * g.reSize) % g.tileSize, (x * g.reSize) % g.tileSize,
                  g.reSize, g.reSize>>]

\* GlobalTileInfo.get_tile_index_and_offset(x, y), times = tileSize / reSize:
\* int(x / times) and int(x % times * reSize)
TileIndexAndOffset(g, x, y) ==
    [tile   |-> <<TruncQ(x * g.reSize, g.tileSize), TruncQ(y * g.reSize, g.tileSize)>>,
     window |-> <<(x * g.reSize) % g.tileSize, (y * g.reSize) % g.tileSize,
                  g.reSize, g.reSize>>]

----------------------------------------------------------------------------
(* Window planning.  A rectangle is <<x0, x1, y0, y1>>, both ends          *)
(* inclusive; a transform is [ox, sx, oy, sy].                             *)

\* normalisation of the x sides only
NormalizedXOnly(read_info, fill_info) ==
    LET x_size == read_info[2] - read_info[1] - fill_info[2] + fill_info[1]
    IN  [read |-> IF x_size < 0
                  THEN <<read_info[1], read_info[2] - x_size, read_info[3], read_info[4]>>
                  ELSE read_info,
         fill |-> IF x_size > 0
                  THEN <<fill_info[1], fill_info[2] + x_size, fill_info[3], fill_info[4]>>
                  ELSE fill_info]

\* _normalized_read_and_fill_info(read_info, fill_info)
NormalizedReadAndFillInfo(read_info, fill_info) ==
    LET x_size == read_info[2] - read_info[1] - fill_info[2] + fill_info[1]
        r1 == IF x_size < 0
              THEN <<read_info[1], read_info[2] - x_size, read_info[3], read_info[4]>>
              ELSE read_info
        f1 == IF x_size > 0
              THEN <<fill_info[1], fill_info[2] + x_size, fill_info[3], fill_info[4]>>
              ELSE fill_info
        y_size == r1[4] - r1[3] - f1[4] + f1[3]
        r2 == IF y_size < 0 THEN <<r1[1], r1[2], r1[3], r1[4] - y_size>> ELSE r1
        f2 == IF y_size > 0 THEN <<f1[1], f1[2], f1[3], f1[4] + y_size>> ELSE f1
    IN  [read |-> r2, fill |-> f2]

\* tiles after the first placed without the start offset taken off
AxisWindowUnshifted(i, start, end, tz, startOffset, endOffset) ==
    LET fill0pre == (i - start) * tz
        read0 == IF i = start THEN startOffset ELSE 0
        fill0 == IF i = start THEN 0 ELSE fill0pre
        read1 == IF i = end THEN endOffset - 1 ELSE tz - 1
        fill1 == IF i = end THEN fill0 + read1 - read0 ELSE fill0pre + tz - 1
    IN  <<read0, read1, fill0, fill1>>

\* the position of one tile of the plan in the intermediate buffer, per axis:
\* <<read0, read1, fill0, fill1>> for tile index i of start..end
AxisWindow(i, start, end, tz, startOffset, endOffset) ==
    LET fill0pre == (i - start) * tz - startOffset
        read0 == IF i = start THEN startOffset ELSE 0
        fill0 == IF i = start THEN 0 ELSE fill0pre
        read1 == IF i = end THEN endOffset - 1 ELSE tz - 1
        fill1 == IF i = end THEN fill0 + read1 - read0 ELSE fill0pre + tz - 1
    IN  <<read0, read1, fill0, fill1>>

\* the no-intersection test of calculate_read_window_of_sliced_band:
\* `not a < b and c > d` is `(not a < b) and c > d`
SlicedNoIntersection(g, read_lx, read_rx, read_ty, read_by) ==
    LET ori_lx == g.firstTileLeftX
        ori_rx == ori_lx + g.reSize * g.rangeX * g.scalaX
        ori_ty == g.firstTileLeftY
        ori_by == ori_ty + g.reSize * g.rangeY * g.scalaY
    IN  /\ ~(Max2(read_lx, ori_lx) < Min2(read_rx, ori_rx))
        /\ Min2(read_ty, ori_ty) > Max2(read_by, ori_by)

\* GlobalTileInfo.calculate_read_window_of_sliced_band(transform, xSize, ySize, zoom)
CalculateReadWindowOfSlicedBand(g, t, xSize, ySize, zoom) ==
    LET read_lx == t.ox
        read_ty == t.oy
        read_rx == t.ox + t.sx * xSize
        read_by == t.oy + t.sy * ySize
        tz  == g.tileSizeList[zoom + 1]
        sxz == g.scalaXList[zoom + 1]
        syz == g.scalaYList[zoom + 1]
        ori_lx == g.firstTileLeftX
        ori_ty == g.firstTileLeftY
    IN  IF SlicedNoIntersection(g, read_lx, read_rx, read_ty, read_by)
        THEN [kind |-> "None"]
        ELSE IF tz = 0
        THEN [kind |-> "raise", error |-> "ZeroDivisionError"]
        ELSE
        LET start_x == TruncQ(read_lx - ori_lx, tz * sxz)
            start_y == TruncQ(read_ty - ori_ty, tz * syz)
            end_x == CeilQ(read_rx - ori_lx, tz * sxz) - 1
            end_y == CeilQ(read_by - ori_ty, tz * syz) - 1
            so_x == TruncQ(Abs(read_lx - GetX(g, start_x)), Abs(sxz))
            so_y == TruncQ(Abs(read_ty - GetY(g, start_y)), Abs(syz))
            eo_x == CeilQ(Abs(read_rx - GetX(g, end_x)), Abs(sxz))
            eo_y == CeilQ(Abs(read_by - GetY(g, end_y)), Abs(syz))
            nx == Max2(end_x - start_x + 1, 0)
            ny == Max2(end_y - start_y + 1, 0)
            entry(i) ==
                LET x  == start_x + ((i - 1) \div ny)
                    y  == start_y + ((i - 1) % ny)
                    ax == AxisWindow(x, start_x, end_x, tz, so_x, eo_x)
                    ay == AxisWindow(y, start_y, end_y, tz, so_y, eo_y)
                    n  == NormalizedReadAndFillInfo(
                              <<RoundingQ(ax[1], 1), RoundingQ(ax[2], 1),
                                RoundingQ(ay[1], 1), RoundingQ(ay[2], 1)>>,
                              <<RoundingQ(ax[3], 1), RoundingQ(ax[4], 1),
                                RoundingQ(ay[3], 1), RoundingQ(ay[4], 1)>>)
                IN  [tile |-> <<x, y>>, read |-> n.read, fill |-> n.fill]
        IN  [kind |-> "plan",
             infos |-> [i \in 1..(nx * ny) |-> entry(i)],
             transform |-> [ox |-> GetX(g, start_x) + so_x * sxz, sx |-> sxz,
                            oy |-> GetY(g, start_y) + so_y * syz, sy |-> syz],
             shape |-> <<(end_y - start_y) * tz - so_y + eo_y,
                         (end_x - start_x) * tz - so_x + eo_x>>]

\* one axis of calculate_read_window_of_unsliced_band: the quotients
\* dis0 = n0 / d and dis1 = n1 / d give <<_x0, _x1, _offsetX, _endX>>, rounded
UnslicedAxis(n0, n1, d, oSize, size) ==
    LET neg0 == (n0 # 0) /\ ((n0 < 0) # (d < 0))
        neg1 == (n1 # 0) /\ ((n1 < 0) # (d < 0))
        c0   == IF neg0 THEN 0 ELSE RoundingQ(n0, d)
        off  == IF neg0 THEN RoundingQ(Abs(n0), Abs(d)) ELSE 0
        c1   == IF neg1 THEN RoundingQ((oSize - 1) * d + n1, d) ELSE oSize - 1
        end  == IF neg1 THEN size - 1 ELSE RoundingQ((size - 1) * d - n1, d)
    IN  <<c0, c1, off, end>>

\* GlobalTileInfo.calculate_read_window_of_unsliced_band(transform, xSize, ySize, zoom)
CalculateReadWindowOfUnslicedBand(g, t, xSize, ySize, zoom) ==
    LET regionLX == t.ox
        regionLY == t.oy
        regionRX == t.ox + t.sx * xSize
        regionRY == t.oy + t.sy * ySize
        scalaX == g.scalaXList[zoom + 1]
        scalaY == g.scalaYList[zoom + 1]
        o_ySize == TruncQ(g.ySize, 2 ^ zoom)
        o_xSize == TruncQ(g.xSize, 2 ^ zoom)
    IN  IF regionLX >= g.rx \/ regionRX <= g.lx \/ regionLY <= g.ry \/ regionRY >= g.ly
        THEN [kind |-> "None"]
        ELSE
        LET ax == UnslicedAxis(regionLX - g.lx, regionRX - g.rx, scalaX, o_xSize, xSize)
            ay == UnslicedAxis(regionLY - g.ly, regionRY - g.ry, scalaY, o_ySize, ySize)
            n  == NormalizedReadAndFillInfo(<<ax[1], ax[2], ay[1], ay[2]>>,
                                            <<ax[3], ax[4], ay[3], ay[4]>>)
        IN  [kind |-> "pair", read |-> n.read, fill |-> n.fill]

\* the envelope (min_x, max_x, min_y, max_y) of the request polygon
EnvelopeOf(t, shape) ==
    LET x1 == t.ox + shape[2] * t.sx
        y1 == t.oy + shape[1] * t.sy
    IN  [min_x |-> Min2(t.ox, x1), max_x |-> Max2(t.ox, x1),
         min_y |-> Min2(t.oy, y1), max_y |-> Max2(t.oy, y1)]

RECURSIVE SelectZoomStrict(_, _, _, _)
\* the level loop with sx > scalaXList[i] in place of >=
SelectZoomStrict(list, dx, w, i) ==
    IF i <= Len(list) /\ dx > list[i] * w
    THEN SelectZoomStrict(list, dx, w, i + 1)
    ELSE Max2(i - 2, 0)

RECURSIVE SelectZoom(_, _, _, _)
\* the level loop of rebuild_transform_to_target_crs, sx = dx / w:
\* zoom follows i while sx >= scalaXList[i], and stops at the first smaller sx
SelectZoom(list, dx, w, i) ==
    IF i <= Len(list) /\ dx >= list[i] * w
    THEN SelectZoom(list, dx, w, i + 1)
    ELSE Max2(i - 2, 0)

\* GlobalTileInfo.rebuild_transform_to_target_crs(transform, shape, s_crs, t_crs);
\* env is the envelope of the request polygon transformed into the band CRS
RebuildTransformToTargetCrs(g, t, shape, sameCrs, env) ==
    IF t.sx = g.scalaX /\ t.sy = g.scalaY /\ sameCrs
    THEN [transform |-> t, shape |-> shape, need |-> FALSE, zoom |-> 0]
    ELSE
    LET zoom == SelectZoom(g.scalaXList, env.max_x - env.min_x, shape[2], 1)
        sxz  == g.scalaXList[zoom + 1]
        syz  == g.scalaYList[zoom + 1]
        max_y == IF env.max_y >= g.ly THEN g.ly
                 ELSE TruncQ(env.max_y - g.ly, syz) * syz + g.ly
        min_x == IF env.min_x <= g.lx THEN g.lx
                 ELSE TruncQ(env.min_x - g.lx, sxz) * sxz + g.lx
        max_x == IF env.max_x >= g.rx THEN g.rx
                 ELSE CeilQ(env.max_x - g.lx, sxz) * sxz + g.lx
        min_y == IF env.min_y <= g.ry THEN g.ry
                 ELSE CeilQ(env.min_y - g.ly, syz) * syz + g.ly
        h == RoundingQ(Abs(min_y - max_y), Abs(syz))
        w == RoundingQ(Abs(max_x - min_x), Abs(sxz))
    IN  [transform |-> [ox |-> min_x, sx |-> sxz, oy |-> max_y, sy |-> syz],
         shape |-> <<h, w>>, need |-> TRUE, zoom |-> zoom]

----------------------------------------------------------------------------
(* global_cache (utils/cache.py).  _CACHE is an OrderedDict: a sequence of *)
(* [key, value] in insertion order; _EXPIRE_DICT maps keys to expiry times.*)

GlobalCacheMaxSize == 1073741824

CacheTileExpire == 3600

\* sys.getsizeof(value): blobs carry their size
SizeOf(v) == v.size

NewCache(maxsize) ==
    [CACHE |-> <<>>, EXPIRE |-> <<>>, freeSize |-> maxsize, maxsize |-> maxsize]

CacheKeys(c) == {c.CACHE[i].key : i \in DOMAIN c.CACHE}

CacheValue(c, k) == c.CACHE[CHOOSE i \in DOMAIN c.CACHE : c.CACHE[i].key = k].value

RECURSIVE SumSizes(_, _)
SumSizes(seq, S) ==
    IF seq = <<>> THEN 0
    ELSE (IF Head(seq).key \in S THEN SizeOf(Head(seq).value) ELSE 0) + SumSizes(Tail(seq), S)

DropKeys(seq, S) == SelectSeq(seq, LAMBDA e : e.key \notin S)

\* Cache._delete, applied to each key of S
CacheDeleteKeys(c, S) ==
    [c EXCEPT !.CACHE = DropKeys(@, S),
              !.freeSize = @ + SumSizes(c.CACHE, S),
              !.EXPIRE = [k \in (DOMAIN @) \ S |-> @[k]]]

\* Cache._delete_expired at time t
CacheDeleteExpired(c, t) ==
    CacheDeleteKeys(c, {k \in DOMAIN c.EXPIRE : c.EXPIRE[k] <= t})

\* Cache.has(key) at time t: the sweep, then the membership test
CacheHas(c, k, t) ==
    LET c1 == CacheDeleteExpired(c, t)
    IN  [cache |-> c1, has |-> k \in CacheKeys(c1)]

NoneValue == [size |-> 0, none |-> TRUE]

\* Cache.get(key) at time t: no sweep; an expired entry is deleted and None returned
CacheGet(c, k, t) ==
    IF k \notin CacheKeys(c) THEN [cache |-> c, value |-> NoneValue]
    ELSE IF k \in DOMAIN c.EXPIRE /\ c.EXPIRE[k] <= t
    THEN [cache |-> CacheDeleteKeys(c, {k}), value |-> NoneValue]
    ELSE [cache |-> c, value |-> CacheValue(c, k)]

RECURSIVE EvictLoopNewest(_, _)
\* an eviction loop that pops the newest entry
EvictLoopNewest(c, sizeLack) ==
    IF sizeLack >= 0 \/ c.CACHE = <<>> THEN c
    ELSE LET sz == SizeOf(c.CACHE[Len(c.CACHE)].value)
         IN  EvictLoopNewest([c EXCEPT !.CACHE = SubSeq(@, 1, Len(@) - 1),
                                       !.freeSize = @ + sz], sizeLack + sz)

RECURSIVE EvictLoop(_, _)
\* the loop of Cache._evict: pop the oldest entry while sizeLack < 0
EvictLoop(c, sizeLack) ==
    IF sizeLack >= 0 \/ c.CACHE = <<>> THEN c
    ELSE LET sz == SizeOf(Head(c.CACHE).value)
         IN  EvictLoop([c EXCEPT !.CACHE = Tail(@), !.freeSize = @ + sz], sizeLack + sz)

\* Cache._evict(sizeNeed)
CacheEvict(c, sizeNeed) ==
    IF sizeNeed > c.freeSize THEN EvictLoop(c, c.freeSize - sizeNeed) ELSE c

\* Cache.set(key, value, expire) at time t
CacheSet(c, k, v, expire, t) ==
    LET c1 == CacheDeleteExpired(c, t)
    IN  IF SizeOf(v) > c1.maxsize THEN [cache |-> c1, raised |-> TRUE]
        ELSE LET c2 == IF k \in CacheKeys(c1) THEN CacheDeleteKeys(c1, {k}) ELSE c1
                 c3 == CacheEvict(c2, SizeOf(v))
                 c4 == [c3 EXCEPT !.CACHE = Append(@, [key |-> k, value |-> v]),
                                  !.freeSize = @ - SizeOf(v),
                                  !.EXPIRE = [x \in (DOMAIN @) \cup {k} |->
                                                 IF x = k THEN t + expire ELSE @[x]]]
             IN  [cache |-> c4, raised |-> FALSE]

----------------------------------------------------------------------------
(* Arrays are sequences of rows; tile blobs hold the encoded array.        *)

BandTileSize == 2

BandTilesPerSide == 2

MaxOps == 3

MaxTicks == 1

TickSeconds == 3600

ReadRegionMax == 4096

\* metadata.nodata[0] of the band
NoData == 0

FilledArray(h, w, v) == [r \in 1..h |-> [c \in 1..w |-> v]]

ShapeOf(a) == <<Len(a), IF Len(a) = 0 THEN 0 ELSE Len(a[1])>>

\* the tile GeoTIFF write_tile composes (lossless), and its size in bytes
EncodeTile(a) == [data |-> a, size |-> 1 + Len(a) * Len(a), none |-> FALSE]

\* dst.read(1, window=Window(col_off, row_off, width, height)) at the base level
ReadWindow(blob, w) ==
    [r \in 1..w[4] |-> [c \in 1..w[3] |-> blob.data[w[2] + r][w[1] + c]]]

WindowInside(blob, w) ==
    /\ w[1] >= 0 /\ w[2] >= 0 /\ w[3] >= 1 /\ w[4] >= 1
    /\ w[2] + w[4] <= Len(blob.data)
    /\ w[1] + w[3] <= Len(blob.data[1])

\* read_from_access_path(access_path, window, cache=True) at time t:
\* the cached blob when global_cache.has(path), else the backend's blob and
\* a daemon cache_tile thread for the path
ReadFromAccessPath(c, be, tile, w, t) ==
    LET h == CacheHas(c, tile, t)
        g == CacheGet(h.cache, tile, t)
    IN  IF h.has
        THEN [cache |-> g.cache, spawn |-> {},
              data |-> IF g.value.none \/ ~WindowInside(g.value, w)
                       THEN <<>> ELSE ReadWindow(g.value, w),
              raised |-> g.value.none \/ ~WindowInside(g.value, w)]
        ELSE [cache |-> h.cache, spawn |-> {[path |-> tile, stage |-> "start"]},
              data |-> IF WindowInside(be[tile], w) THEN ReadWindow(be[tile], w) ELSE <<>>,
              raised |-> ~WindowInside(be[tile], w)]

\* SlicedBand.read_tile(x, y)
ReadTileOf(g, c, be, x, y, t) ==
    LET io == TileIndexAndOffset(g, x, y)
    IN  IF io.tile \in DOMAIN be
        THEN LET r == ReadFromAccessPath(c, be, io.tile, io.window, t)
             IN  [data |-> r.data, cache |-> r.cache, spawn |-> r.spawn,
                  raised |-> r.raised, tile |-> io.tile]
        ELSE [data |-> FilledArray(g.reSize, g.reSize, NoData), cache |-> c,
              spawn |-> {}, raised |-> FALSE, tile |-> io.tile]

\* array[r0 : r1 + 1, c0 : c1 + 1] = src[fr0 : ..., fc0 : ...] with 0-based, in-range ends
Blit(array, r0, r1, c0, c1, src, fr0, fc0) ==
    [r \in 1..Len(array) |-> [c \in 1..Len(array[r]) |->
        IF r - 1 >= r0 /\ r - 1 <= r1 /\ c - 1 >= c0 /\ c - 1 <= c1
        THEN src[fr0 + (r - r0)][fc0 + (c - c0)]
        ELSE array[r][c]]]

----------------------------------------------------------------------------
(* SlicedBand over the backend and the cache.                              *)

\* the one element of a singleton set
Only(S) == CHOOSE x \in S : TRUE

Put(f, k, v) == [x \in (DOMAIN f) \cup {k} |-> IF x = k THEN v ELSE f[x]]

\* _get_x_end_and_y_end(fill_info, actual_shape, virtual_shape)
GetXEndAndYEnd(fill, dataShape, virtualShape) ==
    LET x0 == IF fill[2] < dataShape[2] + fill[1] - 1
              THEN fill[2] - fill[1] + 1 ELSE dataShape[2]
        y0 == IF fill[4] < dataShape[1] + fill[3] - 1
              THEN fill[4] - fill[3] + 1 ELSE dataShape[1]
        x1 == IF fill[1] + x0 > virtualShape[2] THEN virtualShape[2] - fill[1] ELSE x0
        y1 == IF fill[3] + y0 > virtualShape[1] THEN virtualShape[1] - fill[3] ELSE y0
    IN  <<x1, y1>>

\* threading_read_from_info(info) of read_region: acc is [base, cache, spawn, requests];
\* an exception inside the worker leaves the buffer as it was
ReadInfo(g, info, acc, shape, be, t) ==
    IF info.tile \notin DOMAIN be
    THEN [acc EXCEPT !.requests = @ + 1]
    ELSE
    LET w  == <<info.read[1], info.read[3], info.read[2] - info.read[1] + 1,
                info.read[4] - info.read[3] + 1>>
        r  == ReadFromAccessPath(acc.cache, be, info.tile, w, t)
        e  == GetXEndAndYEnd(info.fill, ShapeOf(r.data), shape)
        ok == /\ ~r.raised
              /\ e[1] >= 1 /\ e[2] >= 1
              /\ e[1] <= Len(r.data[1]) /\ e[2] <= Len(r.data)
              /\ info.fill[1] >= 0 /\ info.fill[3] >= 0
              /\ info.fill[1] + e[1] <= shape[2] /\ info.fill[3] + e[2] <= shape[1]
    IN  [base |-> IF ok
                  THEN Blit(acc.base, info.fill[3], info.fill[3] + e[2] - 1,
                            info.fill[1], info.fill[1] + e[1] - 1, r.data, 0, 0)
                  ELSE acc.base,
         cache |-> r.cache, spawn |-> acc.spawn \cup r.spawn,
         requests |-> acc.requests + 2]

RECURSIVE ReadInfos(_, _, _, _, _, _, _)
ReadInfos(g, infos, i, acc, shape, be, t) ==
    IF i > Len(infos) THEN acc
    ELSE Only({ ReadInfos(g, infos, i + 1, a, shape, be, t) :
                    a \in {ReadInfo(g, infos[i], acc, shape, be, t)} })

\* read_region once the request is rebuilt (rb) and planned (plan)
ReadRegionPlanned(g, c, be, rb, plan, shape, now0) ==
    IF plan.kind = "None"
    THEN [kind |-> "raise", error |-> "TypeError", cache |-> c, spawn |-> {},
          requests |-> 0]
    ELSE IF plan.kind = "raise"
    THEN [kind |-> "raise", error |-> plan.error, cache |-> c, spawn |-> {},
          requests |-> 0]
    ELSE IF plan.shape[1] < 0 \/ plan.shape[2] < 0
    THEN [kind |-> "raise", error |-> "ValueError", cache |-> c, spawn |-> {},
          requests |-> 0]
    ELSE Only({
        IF plan.shape = rb.shape /\ ~rb.need
        THEN [kind |-> "array", data |-> acc.base, cache |-> acc.cache,
              spawn |-> acc.spawn, requests |-> acc.requests]
        ELSE IF plan.shape[1] = 0 \/ plan.shape[2] = 0
        THEN [kind |-> "raise", error |-> "warp of an empty source",
              cache |-> acc.cache, spawn |-> acc.spawn, requests |-> acc.requests]
        ELSE [kind |-> "warped", source |-> acc.base, shape |-> shape,
              cache |-> acc.cache, spawn |-> acc.spawn, requests |-> acc.requests] :
        acc \in { ReadInfos(g, plan.infos, 1,
                      [base |-> FilledArray(plan.shape[1], plan.shape[2], NoData),
                       cache |-> c, spawn |-> {}, requests |-> 0],
                      plan.shape, be, now0) } })

\* read_region from the rebuilt request on: the plan, then the reads
ReadRegionRebuilt(g, c, be, rb, shape, now0) ==
    Only({ ReadRegionPlanned(g, c, be, rb, plan, shape, now0) :
               plan \in { CalculateReadWindowOfSlicedBand(g, rb.transform, rb.shape[2],
                                                          rb.shape[1], rb.zoom) } })

\* SlicedBand.read_region(transform, xSize, ySize) with project = None
ReadRegionOf(g, c, be, t, xSize0, ySize0, now0) ==
    IF xSize0 <= 0 \/ ySize0 <= 0
    THEN [kind |-> "empty", cache |-> c, spawn |-> {}, requests |-> 0]
    ELSE
    LET clamp == xSize0 >= ReadRegionMax \/ ySize0 >= ReadRegionMax
        xSize == IF clamp THEN Min2(xSize0, ReadRegionMax) ELSE xSize0
        ySize == IF clamp THEN Min2(ySize0, ReadRegionMax) ELSE ySize0
    IN  Only({ ReadRegionRebuilt(g, c, be, rb, <<ySize, xSize>>, now0) :
                   rb \in { RebuildTransformToTargetCrs(g, t, <<ySize, xSize>>, TRUE,
                                EnvelopeOf(t, <<ySize, xSize>>)) } })

\* one _write_tile(info) of write_region: read the tile, blit, write it back;
\* acc is [be, cache, spawn, written, raised]; upload k fails when k = fail
WriteInfoWith(rt, info, k, acc, data, fail) ==
    LET array == Blit(rt.data, info.read[3], info.read[4], info.read[1], info.read[2],
                      data, info.fill[3], info.fill[1])
    IN  IF rt.raised
        THEN [acc EXCEPT !.cache = rt.cache, !.raised = TRUE]
        ELSE [be |-> IF k = fail THEN acc.be ELSE Put(acc.be, info.tile, EncodeTile(array)),
              cache |-> rt.cache, spawn |-> acc.spawn \cup rt.spawn,
              written |-> IF k = fail THEN acc.written ELSE acc.written \cup {info.tile},
              failed |-> IF k = fail THEN acc.failed \cup {info.tile} ELSE acc.failed,
              raised |-> FALSE]

WriteInfo(g, info, k, acc, data, fail, t) ==
    Only({ WriteInfoWith(rt, info, k, acc, data, fail) :
               rt \in {ReadTileOf(g, acc.cache, acc.be, info.tile[1], info.tile[2], t)} })

RECURSIVE WriteInfos(_, _, _, _, _, _, _)
WriteInfos(g, infos, i, acc, data, fail, t) ==
    IF i > Len(infos) \/ acc.raised THEN acc
    ELSE Only({ WriteInfos(g, infos, i + 1, a, data, fail, t) :
                    a \in {WriteInfo(g, infos[i], i, acc, data, fail, t)} })

\* what callers hand to write_tile, and whether the upload then succeeds:
\* uniform T x T tiles, an upload that fails, an array of the wrong shape
TileWrites == { <<FilledArray(BandTileSize, BandTileSize, 1), TRUE>>,
                <<FilledArray(BandTileSize, BandTileSize, 2), TRUE>>,
                <<FilledArray(BandTileSize, BandTileSize, 2), FALSE>>,
                <<FilledArray(BandTileSize + 1, BandTileSize, 1), TRUE>> }

RegionData(h, w, p) ==
    [r \in 1..h |-> [c \in 1..w |->
        IF p = 1 THEN 1
        ELSE 2 + 2 * ((r - 1) \div BandTileSize) + ((c - 1) \div BandTileSize)]]

\* the (i, j)-th T x T block of region data d
BlockOf(d, i, j) ==
    [r \in 1..BandTileSize |-> [c \in 1..BandTileSize |->
        d[j * BandTileSize + r][i * BandTileSize + c]]]

NoOut == [op |-> "none"]

BandExtent == BandTileSize * BandTilesPerSide

\* A band opened in a fresh process (nothing cached) over a dataset that is new,
\* or whose tile (0, 0) an earlier write_tile has stored.
BandInit ==
    /\ gti = GlobalTileInfo(0, 1, 0, -1, BandExtent, BandExtent, BandTileSize)
    /\ out = NoOut
    /\ \E old \in {<<>>, [k \in {<<0, 0>>} |-> FilledArray(BandTileSize, BandTileSize, 1)]} :
         /\ backend = [k \in DOMAIN old |-> EncodeTile(old[k])]
         /\ stored = [k \in DOMAIN old |-> [by |-> "write_tile", data |-> old[k]]]
    /\ cache = NewCache(GlobalCacheMaxSize)
    /\ pending = {}
    /\ now = 0
    /\ ret = [op |-> "none"]
    /\ nops = 0
    /\ meta \in {[readonly |-> FALSE], [readonly |-> TRUE]}

\* SlicedBand.read_tile(x, y)
ReadTile(x, y) ==
    \E r \in {ReadTileOf(gti, cache, backend, x, y, now)} :
        /\ nops < MaxOps
        /\ cache' = r.cache
        /\ pending' = pending \cup r.spawn
        /\ ret' = [op |-> "read_tile", x |-> x, y |-> y, tile |-> r.tile,
                   data |-> r.data, raised |-> r.raised]
        /\ nops' = nops + 1
        /\ UNCHANGED <<gti, out, backend, now, stored, meta>>

\* SlicedBand.write_tile(x, y, array), concurrency = False; ok is the upload's result
WriteTile(x, y, a, ok) ==
    LET refused == meta.readonly \/ ~Writeable(gti)
        badShape == ShapeOf(a) # <<gti.tileSize, gti.tileSize>>
        done == ~refused /\ ~badShape /\ ok
    IN  /\ nops < MaxOps
        /\ backend' = IF done THEN Put(backend, <<x, y>>, EncodeTile(a)) ELSE backend
        /\ stored' = IF done THEN Put(stored, <<x, y>>, [by |-> "write_tile", data |-> a])
                     ELSE stored
        /\ ret' = [op |-> "write_tile", x |-> x, y |-> y, result |-> done,
                   upload |-> ~refused /\ ~badShape]
        /\ nops' = nops + 1
        /\ UNCHANGED <<gti, out, cache, pending, now, meta>>

\* SlicedBand.read_region(transform, xSize, ySize) on the native grid
ReadRegion(t, xSize, ySize) ==
    \E r \in {ReadRegionOf(gti, cache, backend, t, xSize, ySize, now)} :
        /\ nops < MaxOps
        /\ cache' = r.cache
        /\ pending' = pending \cup r.spawn
        /\ ret' = [op |-> "read_region", t |-> t, xSize |-> xSize, ySize |-> ySize,
                   kind |-> r.kind, requests |-> r.requests,
                   data |-> IF r.kind = "array" THEN r.data
                            ELSE IF r.kind = "warped" THEN r.source ELSE <<>>]
        /\ nops' = nops + 1
        /\ UNCHANGED <<gti, out, backend, now, stored, meta>>

\* write_region once planned: the tiles are read, patched and written in turn
WriteRegionPlanned(plan, t, d, x0, y0, whole, fail) ==
    IF plan.kind # "plan"
    THEN /\ ret' = [op |-> "write_region", result |-> FALSE, raised |-> TRUE,
                    failed |-> {}, written |-> {}]
         /\ UNCHANGED <<backend, cache, pending, stored>>
    ELSE /\ plan.transform = t /\ plan.shape = ShapeOf(d)
         /\ fail <= Len(plan.infos)
         /\ \E acc \in { WriteInfos(gti, plan.infos, 1,
                              [be |-> backend, cache |-> cache, spawn |-> {},
                               written |-> {}, failed |-> {}, raised |-> FALSE],
                              d, fail, now) } :
              /\ backend' = acc.be
              /\ cache' = acc.cache
              /\ pending' = pending \cup acc.spawn
              /\ stored' = [k \in (DOMAIN stored) \cup acc.written |->
                               IF k \notin acc.written THEN stored[k]
                               ELSE [by |-> "write_region", whole |-> whole,
                                     data |-> IF whole
                                              THEN BlockOf(d, k[1] - x0, k[2] - y0)
                                              ELSE acc.be[k].data]]
              /\ ret' = [op |-> "write_region", result |-> ~acc.raised,
                         raised |-> acc.raised, failed |-> acc.failed,
                         written |-> acc.written]

\* SlicedBand.write_region(transform, data), concurrency = False, with the data
\* on the native grid: origin dx, dy pixels into tile (x0, y0).  Upload number
\* fail (if any) fails.
WriteRegion(x0, y0, dx, dy, d, fail) ==
    LET ti == TileInfo(gti, x0, y0)
        t  == [ox |-> ti.ox + dx * ti.sx, sx |-> ti.sx, oy |-> ti.oy + dy * ti.sy,
               sy |-> ti.sy]
        whole == dx = 0 /\ dy = 0 /\ Len(d) % gti.tileSize = 0
                 /\ Len(d[1]) % gti.tileSize = 0
    IN  /\ nops < MaxOps
        /\ nops' = nops + 1
        /\ UNCHANGED <<gti, out, now, meta>>
        /\ IF meta.readonly \/ ~Writeable(gti)
           THEN /\ ret' = [op |-> "write_region", result |-> FALSE, raised |-> FALSE,
                           failed |-> {}, written |-> {}]
                /\ UNCHANGED <<backend, cache, pending, stored>>
           ELSE \E plan \in { CalculateReadWindowOfSlicedBand(gti, t, Len(d[1]), Len(d), 0) } :
                    WriteRegionPlanned(plan, t, d, x0, y0, whole, fail)

\* the daemon thread of cache_tiles(path): _cache_tile opens and reads the file ...
CacheTileRead(p) ==
    /\ p.stage = "start"
    /\ pending' = IF p.path \in DOMAIN backend
                  THEN (pending \ {p}) \cup
                       {[path |-> p.path, stage |-> "read", ctx |-> backend[p.path]]}
                  ELSE pending \ {p}
    /\ UNCHANGED <<gti, out, backend, cache, now, ret, stored, nops, meta>>

\* ... and installs it with global_cache.set(path, ctx, 3600)
CacheTileSet(p) ==
    /\ p.stage = "read"
    /\ cache' = CacheSet(cache, p.path, p.ctx, CacheTileExpire, now).cache
    /\ pending' = pending \ {p}
    /\ UNCHANGED <<gti, out, backend, now, ret, stored, nops, meta>>

\* time passes
Tick ==
    /\ now < MaxTicks * TickSeconds
    /\ now' = now + TickSeconds
    /\ UNCHANGED <<gti, out, backend, cache, pending, ret, stored, nops, meta>>

\* the tiles callers address one at a time
CallerTiles == {<<0, 0>>, <<1, 0>>}

\* read_region windows <<ox, oy, xSize, ySize>> on the native grid: one tile, the
\* whole lattice, a window across tile borders, and windows that miss the data
\* on the left, on the right, above and below
RegionWindows ==
    LET T == BandTileSize
        E == BandExtent
    IN  { <<0, 0, T, T>>, <<0, 0, E, E>>, <<1, -1, T, T>>,
          <<-T, 0, T, T>>, <<E, 0, T, T>>, <<0, T, T, T>>, <<0, 1, 1, 1>>,
          <<0, -E, T, T>> }

WindowTransform(w) == [ox |-> w[1], sx |-> 1, oy |-> w[2], sy |-> -1]

\* the data of write_region calls: <<dx, dy, array>>
RegionWrites ==
    { <<0, 0, RegionData(BandTileSize, 2 * BandTileSize, 2)>>,
      <<0, 0, RegionData(BandTileSize, BandTileSize, 1)>>,
      <<1, 0, RegionData(BandTileSize, BandTileSize, 1)>> }

\* tile reads and writes, region writes, the cache threads and the clock
BandNext ==
    \/ \E k \in CallerTiles : ReadTile(k[1], k[2])
    \/ \E k \in CallerTiles, w \in TileWrites : WriteTile(k[1], k[2], w[1], w[2])
    \/ \E w \in RegionWrites, fail \in 0..1 : WriteRegion(0, 0, w[1], w[2], w[3], fail)
    \/ \E p \in pending : CacheTileRead(p)
    \/ \E p \in pending : CacheTileSet(p)
    \/ Tick

SpecBand == BandInit /\ [][BandNext]_vars

\* region reads over what tile writes have stored, and the cache threads
RegionNext ==
    \/ \E w \in RegionWindows : ReadRegion(WindowTransform(w), w[3], w[4])
    \/ \E k \in CallerTiles, w \in TileWrites : WriteTile(k[1], k[2], w[1], w[2])
    \/ \E p \in pending : CacheTileRead(p)
    \/ \E p \in pending : CacheTileSet(p)

SpecRegion == BandInit /\ [][RegionNext]_vars

----------------------------------------------------------------------------
(* Properties of tile and region I/O.                                      *)

\* C1: a read_tile of a tile whose last successful write was write_tile(x, y, A)
\* returns exactly A, whatever was read or written before.
RoundTripTile ==
    (ret.op = "read_tile" /\ ~meta.readonly /\ Writeable(gti)
        /\ ret.tile \in DOMAIN stored /\ stored[ret.tile].by = "write_tile")
    => (~ret.raised /\ ret.data = stored[ret.tile].data)

\* C4: a read_tile of a tile that write_region last stored as a whole T x T
\* block of its data returns exactly that block.
RegionWriteCoversTiles ==
    (ret.op = "read_tile" /\ ~meta.readonly /\ Writeable(gti)
        /\ ret.tile \in DOMAIN stored /\ stored[ret.tile].by = "write_region"
        /\ stored[ret.tile].whole)
    => (~ret.raised /\ ret.data = stored[ret.tile].data)

\* the window lies entirely outside the data envelope [lx, rx] x [ry, ly]
OutsideData(g, t, xSize, ySize) ==
    LET q == EnvelopeOf(t, <<ySize, xSize>>)
    IN  \/ q.max_x <= Min2(g.lx, g.rx) \/ q.min_x >= Max2(g.lx, g.rx)
        \/ q.max_y <= Min2(g.ly, g.ry) \/ q.min_y >= Max2(g.ly, g.ry)

\* C5: read_region of a window entirely outside the data envelope returns a
\* buffer of the requested shape filled with nodata, without a backend request.
EmptyIntersection ==
    (ret.op = "read_region" /\ ret.xSize >= 1 /\ ret.ySize >= 1
        /\ OutsideData(gti, ret.t, ret.xSize, ret.ySize))
    => /\ ret.kind = "array"
       /\ ret.data = FilledArray(ret.ySize, ret.xSize, NoData)
       /\ ret.requests = 0

----------------------------------------------------------------------------
(* The lattice on its own: datasets, requests and the calls made on them.  *)

\* <<lx, scalaX, ly, scalaY, xSize, ySize, tileSize>>
Datasets ==
    { <<0, 1, 0, -1, 5, 5, 256>>,
      <<19, 3, -700, -3, 300, 601, 256>>,
      <<-700, 3, 19, 3, 601, 300, 256>>,
      <<-700, 1, 1000, -1, 1100, 7, 256>>,
      <<12834619, 30, 5011732, -30, 2000, 2000, 2048>> }

\* one axis of a request: <<whole pixels from the first tile, sub-pixel units, size>>
SpansX(g) ==
    LET T == g.tileSize
    IN  { <<0, 0, 1>>, <<0, 0, T>>, <<1, 1, 2>>, <<T - 1, 0, 2>>, <<T, 0, T + 1>>,
          <<T + 44, 1, T + 44>>, <<-T - 44, 0, 100>>, <<-100, 0, 300>>, <<20 * T, 0, 10>> }

SpansY(g) ==
    LET T == g.tileSize
    IN  { <<0, 0, T>>, <<1, 1, 2>>, <<T - 1, 0, T + 2>>, <<-T - 44, 0, 100>>,
          <<20 * T, 0, 10>> }

\* the request scale, as a multiple of the native scale
ScaleMultiples == {1, 2, 3}

\* the request transform for spans a (x) and b (y) at m times the native scale
RequestTransform(g, a, b, m) ==
    [ox |-> g.firstTileLeftX + a[1] * g.scalaX + a[2], sx |-> m * g.scalaX,
     oy |-> g.firstTileLeftY + b[1] * g.scalaY + b[2], sy |-> m * g.scalaY]

Zooms(g) == 0..(Len(g.factors) - 1)

\* tile sizes asked of resize(): the stored size, divisors, a non-divisor, a larger one
ResizeSizes(g) == {g.tileSize, g.tileSize \div 2, g.tileSize \div 4, 100, g.tileSize + 1}

\* what a reprojection does to the request envelope when the CRS differs
Reprojections == { <<0, 0>>, <<7, 11>> }

Reprojected(env, d) ==
    [min_x |-> env.min_x + d[1], max_x |-> env.max_x + d[1] + d[2],
     min_y |-> env.min_y - d[1], max_y |-> env.max_y - d[1] + d[2]]

\* raw rectangles handed to _normalized_read_and_fill_info
RawEnds == {0, 1, 3}

\* Every call but resize() leaves the lattice as it is, so what a call returns
\* depends on the lattice alone: each is made on the lattice as constructed or
\* as last resized.
Settled == out.op \in {"none", "resize"}

LatticeInit ==
    /\ \E d \in Datasets :
         gti = GlobalTileInfo(d[1], d[2], d[3], d[4], d[5], d[6], d[7])
    /\ out = NoOut
    /\ backend = <<>>
    /\ cache = NewCache(GlobalCacheMaxSize)
    /\ pending = {}
    /\ now = 0
    /\ ret = [op |-> "none"]
    /\ stored = <<>>
    /\ nops = 0
    /\ meta = [readonly |-> FALSE]

Resize(t) ==
    /\ gti' = ResizeGti(gti, t)
    /\ out' = [op |-> "resize", t |-> t, raised |-> ResizeRaises(gti, t)]
    /\ UNCHANGED bandVars

GetTileInfo(x, y) ==
    /\ Settled
    /\ out' = [op |-> "get_tile_info", x |-> x, y |-> y, info |-> TileInfo(gti, x, y)]
    /\ UNCHANGED <<gti, bandVars>>

\* int(x / times) is exact when times is a whole number; other resized sizes are
\* left to the float arithmetic of the build and are not called here
GetTileIndexAndOffset(x, y) ==
    /\ Settled
    /\ gti.tileSize % gti.reSize = 0
    /\ out' = [op |-> "get_tile_index_and_offset", x |-> x, y |-> y,
               res |-> TileIndexAndOffset(gti, x, y)]
    /\ UNCHANGED <<gti, bandVars>>

GetGridInfo ==
    /\ Settled
    /\ out' = [op |-> "get_grid_info", info |-> GridInfo(gti), tiles |-> GetTiles(gti)]
    /\ UNCHANGED <<gti, bandVars>>

CalculateSliced(a, b, m, z) ==
    LET t == RequestTransform(gti, a, b, m)
    IN  /\ Settled
        /\ out' = [op |-> "sliced", t |-> t, xSize |-> a[3], ySize |-> b[3], zoom |-> z,
                   res |-> CalculateReadWindowOfSlicedBand(gti, t, a[3], b[3], z)]
        /\ UNCHANGED <<gti, bandVars>>

CalculateUnsliced(a, b, m, z) ==
    LET t == RequestTransform(gti, a, b, m)
    IN  /\ Settled
        /\ out' = [op |-> "unsliced", t |-> t, xSize |-> a[3], ySize |-> b[3], zoom |-> z,
                   res |-> CalculateReadWindowOfUnslicedBand(gti, t, a[3], b[3], z)]
        /\ UNCHANGED <<gti, bandVars>>

Normalize(r, f) ==
    /\ Settled
    /\ out' = [op |-> "normalize", rawRead |-> r, rawFill |-> f,
               res |-> NormalizedReadAndFillInfo(r, f)]
    /\ UNCHANGED <<gti, bandVars>>

Rebuild(a, b, m, same, d) ==
    LET t     == RequestTransform(gti, a, b, m)
        shape == <<b[3], a[3]>>
        env   == IF same THEN EnvelopeOf(t, shape) ELSE Reprojected(EnvelopeOf(t, shape), d)
    IN  /\ Settled
        /\ out' = [op |-> "rebuild", t |-> t, shape |-> shape, same |-> same, env |-> env,
                   res |-> RebuildTransformToTargetCrs(gti, t, shape, same, env)]
        /\ UNCHANGED <<gti, bandVars>>

LatticeNext ==
    \/ \E t \in ResizeSizes(gti) : Resize(t)
    \/ \E x \in -1..(gti.rangeX + 1), y \in -1..(gti.rangeY + 1) : GetTileInfo(x, y)
    \/ \E x \in 0..(gti.rangeX - 1), y \in 0..(gti.rangeY - 1) : GetTileIndexAndOffset(x, y)
    \/ GetGridInfo
    \/ \E a \in SpansX(gti), b \in SpansY(gti), m \in ScaleMultiples, z \in Zooms(gti) :
         CalculateSliced(a, b, m, z)
    \/ \E a \in SpansX(gti), b \in SpansY(gti), m \in ScaleMultiples, z \in Zooms(gti) :
         CalculateUnsliced(a, b, m, z)
    \/ \E x1 \in RawEnds, y1 \in RawEnds, u1 \in RawEnds, v1 \in RawEnds :
         Normalize(<<0, x1, 1, 1 + y1>>, <<2, 2 + u1, 0, v1>>)
    \/ \E a \in SpansX(gti), b \in SpansY(gti), m \in ScaleMultiples, same \in BOOLEAN,
          d \in Reprojections :
         Rebuild(a, b, m, same, d)

SpecLattice == LatticeInit /\ [][LatticeNext]_vars

----------------------------------------------------------------------------
(* Properties of the lattice and of the planners.                          *)

RectWidth(r) == r[2] - r[1] + 1

RectHeight(r) == r[4] - r[3] + 1

RectsDisjoint(a, b) == a[2] < b[1] \/ b[2] < a[1] \/ a[4] < b[3] \/ b[4] < a[3]

RECURSIVE FillArea(_, _)
FillArea(infos, i) ==
    IF i > Len(infos) THEN 0
    ELSE RectWidth(infos[i].fill) * RectHeight(infos[i].fill) + FillArea(infos, i + 1)

\* the request's envelope lies inside the extent get_grid_info() reports
InsideExtent(g, t, xSize, ySize) ==
    LET e  == GridInfo(g)
        q  == EnvelopeOf(t, <<ySize, xSize>>)
        x1 == e.ox + e.shape[1] * e.sx
        y1 == e.oy + e.shape[2] * e.sy
    IN  /\ Min2(e.ox, x1) <= q.min_x /\ q.max_x <= Max2(e.ox, x1)
        /\ Min2(e.oy, y1) <= q.min_y /\ q.max_y <= Max2(e.oy, y1)

\* the fill rectangles tile the buffer of the given shape exactly
TilesBuffer(infos, shape) ==
    /\ shape[1] >= 1 /\ shape[2] >= 1
    /\ \A i \in DOMAIN infos :
         /\ 0 <= infos[i].fill[1] /\ infos[i].fill[1] <= infos[i].fill[2]
         /\ infos[i].fill[2] <= shape[2] - 1
         /\ 0 <= infos[i].fill[3] /\ infos[i].fill[3] <= infos[i].fill[4]
         /\ infos[i].fill[4] <= shape[1] - 1
    /\ \A i, j \in DOMAIN infos : i < j => RectsDisjoint(infos[i].fill, infos[j].fill)
    /\ FillArea(infos, 1) = shape[1] * shape[2]

SameSize(read, fill) ==
    /\ read[2] - read[1] = fill[2] - fill[1]
    /\ read[4] - read[3] = fill[4] - fill[3]

\* rectangle b is rectangle a, possibly enlarged at its far ends
Enlarged(a, b) == a[1] = b[1] /\ a[3] = b[3] /\ a[2] <= b[2] /\ a[4] <= b[4]

\* C3: every (ReadRect, FillRect) pair of both planners has equal width and equal
\* height; normalisation leaves each rectangle's origin, never shrinks a side, and
\* per axis changes only the rectangle that was the smaller one.
SizeSymmetry ==
    /\ (out.op = "sliced" /\ out.res.kind = "plan")
         => \A i \in DOMAIN out.res.infos :
                SameSize(out.res.infos[i].read, out.res.infos[i].fill)
    /\ (out.op = "unsliced" /\ out.res.kind = "pair")
         => SameSize(out.res.read, out.res.fill)
    /\ out.op = "normalize"
         => /\ SameSize(out.res.read, out.res.fill)
            /\ Enlarged(out.rawRead, out.res.read)
            /\ Enlarged(out.rawFill, out.res.fill)
            /\ RectWidth(out.rawRead) >= RectWidth(out.rawFill)
                 => out.res.read[2] = out.rawRead[2]
            /\ RectWidth(out.rawFill) >= RectWidth(out.rawRead)
                 => out.res.fill[2] = out.rawFill[2]
            /\ RectHeight(out.rawRead) >= RectHeight(out.rawFill)
                 => out.res.read[4] = out.rawRead[4]
            /\ RectHeight(out.rawFill) >= RectHeight(out.rawRead)
                 => out.res.fill[4] = out.rawFill[4]

\* raw rectangles that differ on both axes, the read one narrower and taller
SizeSymmetryWitness ==
    /\ out.op = "normalize"
    /\ RectWidth(out.rawRead) < RectWidth(out.rawFill)
    /\ RectHeight(out.rawRead) > RectHeight(out.rawFill)
    /\ out.res.read # out.rawRead
    /\ out.res.fill # out.rawFill

EnvelopeClipping ==
    (out.op = "rebuild" /\ gti.scalaY < 0) =>
        LET q == EnvelopeOf(out.res.transform, out.res.shape)
        IN  /\ gti.lx <= q.min_x /\ q.max_x <= gti.rx
            /\ gti.ry <= q.min_y /\ q.max_y <= gti.ly

\* C8: get_tile_info(x, y), also on a resized lattice, returns the dataset's
\* scales and an origin with the dataset's sub-pixel phase; on the lattice as
\* stored, and resized to a divisor of T, the origin lies a whole number of
\* tiles from the phase (one global lattice).
LatticeAlignment ==
    out.op = "get_tile_info" =>
        /\ out.info.sx = gti.scalaX
        /\ out.info.sy = gti.scalaY
        /\ out.info.ox % gti.scalaX = gti.lx % gti.scalaX
        /\ out.info.oy % Abs(gti.scalaY) = gti.ly % Abs(gti.scalaY)
        /\ gti.tileSize % gti.reSize = 0
             => /\ (out.info.ox - gti.oriX) % (gti.reSize * gti.scalaX) = 0
                /\ (out.info.oy - gti.oriY) % (gti.reSize * Abs(gti.scalaY)) = 0

\* a tile of a resized lattice over a dataset with a non-zero phase on both axes
LatticeAlignmentWitness ==
    /\ out.op = "get_tile_info"
    /\ gti.reSize < gti.tileSize
    /\ gti.lx % gti.scalaX # 0
    /\ gti.ly % Abs(gti.scalaY) # 0
    /\ out.x >= 1 /\ out.y >= 1

\* C9: the dataset's top-left pixel lies in tile (0, 0); the extent of
\* get_grid_info() contains the dataset envelope; get_tiles() lists exactly
\* rangeX * rangeY distinct indices.
LatticeCovers ==
    (out.op = "get_grid_info" /\ gti.tileSize % gti.reSize = 0) =>
        LET e  == out.info
            x1 == e.ox + e.shape[1] * e.sx
            y1 == e.oy + e.shape[2] * e.sy
            T  == gti.tileSize
        IN  /\ gti.firstTileLeftX <= gti.lx
            /\ gti.lx < gti.firstTileLeftX + T * gti.scalaX
            /\ IF gti.scalaY > 0
               THEN gti.firstTileLeftY <= gti.ly
                    /\ gti.ly < gti.firstTileLeftY + T * gti.scalaY
               ELSE gti.firstTileLeftY >= gti.ly
                    /\ gti.ly > gti.firstTileLeftY + T * gti.scalaY
            /\ e.ox = gti.firstTileLeftX /\ e.oy = gti.firstTileLeftY
            /\ e.shape = <<gti.rangeX * gti.reSize, gti.rangeY * gti.reSize>>
            /\ Min2(e.ox, x1) <= Min2(gti.lx, gti.rx)
            /\ Max2(gti.lx, gti.rx) <= Max2(e.ox, x1)
            /\ Min2(e.oy, y1) <= Min2(gti.ly, gti.ry)
            /\ Max2(gti.ly, gti.ry) <= Max2(e.oy, y1)
            /\ Len(out.tiles) = gti.rangeX * gti.rangeY
            /\ \A i, j \in DOMAIN out.tiles : i # j => out.tiles[i] # out.tiles[j]
            /\ \A i \in DOMAIN out.tiles :
                 /\ out.tiles[i][1] \in 0..(gti.rangeX - 1)
                 /\ out.tiles[i][2] \in 0..(gti.rangeY - 1)

\* a dataset left of the origin with sy > 0, spread over several tiles
LatticeCoversWitness ==
    /\ out.op = "get_grid_info"
    /\ gti.reSize = gti.tileSize
    /\ gti.lx < 0 /\ gti.scalaY > 0
    /\ gti.lx # gti.firstTileLeftX
    /\ Len(out.tiles) >= 4

\* the windows of the sub-tiles of stored tile k tile it exactly
SubTilesCover(g, k) ==
    LET r    == g.tileSize \div g.reSize
        subs == {<<x, y>> : x \in (k[1] * r)..(k[1] * r + r - 1),
                            y \in (k[2] * r)..(k[2] * r + r - 1)}
        win(s) == TileIndexAndOffset(g, s[1], s[2]).window
        rect(s) == <<win(s)[1], win(s)[1] + win(s)[3] - 1,
                     win(s)[2], win(s)[2] + win(s)[4] - 1>>
    IN  /\ \A s \in subs :
              /\ TileIndexAndOffset(g, s[1], s[2]).tile = k
              /\ rect(s)[1] >= 0 /\ rect(s)[2] <= g.tileSize - 1
              /\ rect(s)[3] >= 0 /\ rect(s)[4] <= g.tileSize - 1
              /\ win(s)[3] = g.reSize /\ win(s)[4] = g.reSize
        /\ \A s, u \in subs : s # u => RectsDisjoint(rect(s), rect(u))
        /\ Cardinality(subs) * g.reSize * g.reSize = g.tileSize * g.tileSize

\* C10: on a lattice resized to T / r, r a whole number, rangeX and rangeY are r
\* times the stored tile counts, get_tile_index_and_offset(x, y) is stored tile
\* (x div r, y div r) with window ((x mod r) T/r, (y mod r) T/r, T/r, T/r), and
\* the sub-tiles of that stored tile have disjoint windows covering it.
ResizeMapping ==
    (out.op = "get_tile_index_and_offset" /\ gti.tileSize % gti.reSize = 0) =>
        LET r == gti.tileSize \div gti.reSize
        IN  /\ gti.rangeX = r * (gti.tileXEnd + 1)
            /\ gti.rangeY = r * (gti.tileYEnd + 1)
            /\ out.res.tile = <<out.x \div r, out.y \div r>>
            /\ out.res.window = <<(out.x % r) * gti.reSize, (out.y % r) * gti.reSize,
                                  gti.reSize, gti.reSize>>
            /\ SubTilesCover(gti, out.res.tile)

\* E3: the last of the four sub-tiles of stored tile (0, 0) after halving T
ResizeMappingWitness ==
    /\ out.op = "get_tile_index_and_offset"
    /\ gti.tileSize = 2 * gti.reSize
    /\ out.x = 1 /\ out.y = 1
    /\ out.res.tile = <<0, 0>>
    /\ out.res.window = <<gti.reSize, gti.reSize, gti.reSize, gti.reSize>>

\* ---------------------------------------------------------------------------
\* Writes on a band whose lattice is resized
\* ---------------------------------------------------------------------------

\* the tile sizes a band's lattice is resized to: the stored size, a divisor of
\* it, and a size above it (which resize rejects after assigning reSize)
BandResizes == {BandTileSize, BandTileSize \div 2, BandTileSize + 1}

\* UnSlicedBand.write_tile(x, y, array)
UnslicedWriteTile(x, y, a) ==
    /\ nops < MaxOps
    /\ ret' = [op |-> "unsliced_write_tile", x |-> x, y |-> y, result |-> FALSE]
    /\ nops' = nops + 1
    /\ UNCHANGED <<gti, out, backend, cache, pending, now, stored, meta>>

\* UnSlicedBand.write_region(transform, data)
UnslicedWriteRegion(t, d) ==
    /\ nops < MaxOps
    /\ ret' = [op |-> "unsliced_write_region", result |-> FALSE]
    /\ nops' = nops + 1
    /\ UNCHANGED <<gti, out, backend, cache, pending, now, stored, meta>>

\* resizes of the band's lattice between writes through either adapter
WriteNext ==
    \/ \E t \in BandResizes : Resize(t)
    \/ \E k \in CallerTiles, w \in TileWrites : WriteTile(k[1], k[2], w[1], w[2])
    \/ \E w \in RegionWrites, fail \in 0..1 : WriteRegion(0, 0, w[1], w[2], w[3], fail)
    \/ \E k \in CallerTiles, w \in TileWrites : UnslicedWriteTile(k[1], k[2], w[1])
    \/ \E w \in RegionWrites : UnslicedWriteRegion(WindowTransform(w), w[3])
    \/ \E p \in pending : CacheTileRead(p)
    \/ \E p \in pending : CacheTileSet(p)

SpecWrite == BandInit /\ [][WriteNext]_vars

\* the band passes the gate of write_tile and write_region
WriteGate == ~meta.readonly /\ gti.reSize = gti.tileSize

\* nothing but the call's result and the count of calls changes
OnlyReturns == UNCHANGED <<gti, out, backend, cache, pending, now, stored, meta>>

\* C11: whatever resizes came before, write_tile of a tile-shaped array reaches
\* the upload, and write_region reads and writes tiles, iff the band is not
\* readonly and reSize equals the stored tile size; a band that is not writable
\* returns False from both and changes nothing, and the writes of an
\* UnSlicedBand always return False and change nothing.
Writeability ==
    [][ /\ \A k \in CallerTiles, w \in TileWrites :
              WriteTile(k[1], k[2], w[1], w[2]) =>
                  /\ (ShapeOf(w[1]) = <<gti.tileSize, gti.tileSize>>) =>
                         (ret'.upload <=> WriteGate)
                  /\ ~WriteGate => (ret'.result = FALSE /\ OnlyReturns)
        /\ \A w \in RegionWrites, fail \in 0..1 :
              WriteRegion(0, 0, w[1], w[2], w[3], fail) =>
                  /\ (ret'.written \cup ret'.failed # {} \/ ret'.raised) <=> WriteGate
                  /\ ~WriteGate => (ret'.result = FALSE /\ OnlyReturns)
        /\ (nops' # nops /\ ret'.op \in {"unsliced_write_tile", "unsliced_write_region"})
              => (ret'.result = FALSE /\ OnlyReturns)
      ]_vars

\* test_writeable: a band that is not readonly refuses a tile-shaped write_tile
\* after resize(T / 2)
WriteabilityWitness ==
    /\ ~meta.readonly
    /\ out.op = "resize" /\ out.t = BandTileSize \div 2
    /\ gti.reSize # gti.tileSize
    /\ ret.op = "write_tile" /\ ret.result = FALSE /\ ret.upload = FALSE

\* C12: resize(t) raises exactly when t does not divide the stored tile size.
ResizeValidation ==
    out.op = "resize" => (out.raised <=> gti.tileSize % out.t # 0)

\* C13: write_region returns a false result whenever the upload of at least one
\* touched tile failed, and a true one only when no touched tile failed.
RegionWriteWorstOf ==
    (ret.op = "write_region" /\ ret.failed # {}) => ret.result = FALSE

\* ---------------------------------------------------------------------------
\* Region reads of both adapters and the sizes asked of them
\* ---------------------------------------------------------------------------

\* the object an UnSlicedBand reads: the whole raster as one file
UnslicedPath == <<-1, -1>>

\* UnSlicedBand.read_region once the request is rebuilt (rb) and planned (plan):
\* the buffer, the windowed read of the file, the copy into the buffer
UnslicedReadPlanned(g, be, rb, plan, shape) ==
    IF shape[1] < 0 \/ shape[2] < 0
    THEN [kind |-> "raise", error |-> "ValueError", shape |-> <<>>, data |-> <<>>]
    ELSE IF plan.kind = "None" \/ UnslicedPath \notin DOMAIN be
    THEN [kind |-> "array", shape |-> shape,
          data |-> FilledArray(shape[1], shape[2], NoData)]
    ELSE
    LET w == <<plan.read[1], plan.read[3], plan.read[2] - plan.read[1] + 1,
               plan.read[4] - plan.read[3] + 1>>
    IN  IF ~WindowInside(be[UnslicedPath], w)
        THEN [kind |-> "raise", error |-> "ValueError", shape |-> <<>>, data |-> <<>>]
        ELSE Only({
            IF ~(/\ e[1] >= 1 /\ e[2] >= 1
                 /\ e[1] <= w[3] /\ e[2] <= w[4]
                 /\ plan.fill[1] >= 0 /\ plan.fill[3] >= 0
                 /\ plan.fill[1] + e[1] <= shape[2] /\ plan.fill[3] + e[2] <= shape[1])
            THEN [kind |-> "raise", error |-> "ValueError", shape |-> <<>>,
                  data |-> <<>>]
            ELSE [kind |-> IF rb.need THEN "warped" ELSE "array", shape |-> shape,
                  data |-> Blit(FilledArray(shape[1], shape[2], NoData),
                                plan.fill[3], plan.fill[3] + e[2] - 1,
                                plan.fill[1], plan.fill[1] + e[1] - 1,
                                ReadWindow(be[UnslicedPath], w), 0, 0)] :
            e \in { GetXEndAndYEnd(plan.fill, <<w[4], w[3]>>, rb.shape) } })

\* UnSlicedBand.read_region(transform, xSize, ySize) with project = None
UnslicedReadRegionOf(g, be, t, xSize0, ySize0) ==
    IF xSize0 * ySize0 <= 0
    THEN [kind |-> "empty", shape |-> <<>>, data |-> <<>>]
    ELSE
    LET clamp == xSize0 > ReadRegionMax \/ ySize0 > ReadRegionMax
        xSize == IF clamp THEN Min2(xSize0, ReadRegionMax) ELSE xSize0
        ySize == IF clamp THEN Min2(ySize0, ReadRegionMax) ELSE ySize0
    IN  Only({ Only({ UnslicedReadPlanned(g, be, rb, plan, <<ySize, xSize>>) :
                   plan \in { CalculateReadWindowOfUnslicedBand(g, rb.transform,
                                  rb.shape[2], rb.shape[1], rb.zoom) } }) :
               rb \in { RebuildTransformToTargetCrs(g, t, <<ySize, xSize>>, TRUE,
                            EnvelopeOf(t, <<ySize, xSize>>)) } })

\* UnSlicedBand.read_region(transform, xSize, ySize)
UnslicedReadRegion(t, xSize, ySize) ==
    \E r \in {UnslicedReadRegionOf(gti, backend, t, xSize, ySize)} :
        /\ nops < MaxOps
        /\ ret' = [op |-> "unsliced_read_region", t |-> t, xSize |-> xSize,
                   ySize |-> ySize, kind |-> r.kind, shape |-> r.shape,
                   data |-> r.data]
        /\ nops' = nops + 1
        /\ UNCHANGED <<gti, out, backend, cache, pending, now, stored, meta>>

\* a store that holds the tiles of a sliced band and the file of an unsliced
\* band of the same geometry
SizeInit ==
    /\ gti = GlobalTileInfo(0, 1, 0, -1, BandExtent, BandExtent, BandTileSize)
    /\ out = NoOut
    /\ \E old \in {<<>>, [k \in {<<0, 0>>} |-> FilledArray(BandTileSize, BandTileSize, 1)]} :
         /\ backend = [k \in (DOMAIN old) \cup {UnslicedPath} |->
                          IF k = UnslicedPath
                          THEN [data |-> RegionData(BandExtent, BandExtent, 2),
                                size |-> 1 + BandExtent * BandExtent, none |-> FALSE]
                          ELSE EncodeTile(old[k])]
         /\ stored = [k \in DOMAIN old |-> [by |-> "write_tile", data |-> old[k]]]
    /\ cache = NewCache(GlobalCacheMaxSize)
    /\ pending = {}
    /\ now = 0
    /\ ret = [op |-> "none"]
    /\ nops = 0
    /\ meta \in {[readonly |-> FALSE], [readonly |-> TRUE]}

\* requests <<ox, oy, xSize, ySize>> on the native grid: sizes of one pixel, a
\* tile and the whole raster, zero and negative sizes
SizeWindows ==
    LET T == BandTileSize
        E == BandExtent
    IN  { <<0, 0, 1, 1>>, <<0, 0, T, T>>, <<1, -1, E, E>>, <<0, 0, 0, T>>,
          <<0, 0, T, 0>>, <<0, 0, -1, T>>, <<0, 0, -1, -1>>, <<0, 0, T, -T>> }

\* one-pixel-wide requests at and above the maximum size
LongWindows == { <<0, 0, ReadRegionMax, 1>>, <<0, 0, 1, ReadRegionMax + 1>> }

\* region reads through either adapter
SizeNext ==
    \/ \E w \in SizeWindows : ReadRegion(WindowTransform(w), w[3], w[4])
    \/ \E w \in SizeWindows \cup LongWindows :
           UnslicedReadRegion(WindowTransform(w), w[3], w[4])
    \/ \E p \in pending : CacheTileRead(p)
    \/ \E p \in pending : CacheTileSet(p)

SpecSizes == SizeInit /\ [][SizeNext]_vars

\* C14: a read_region of either adapter with xSize >= 1 and ySize >= 1 is never
\* rejected and returns a buffer of shape (min(ySize, 4096), min(xSize, 4096));
\* with xSize <= 0 or ySize <= 0 both return the empty result.
ReadSizeRule ==
    ret.op \in {"read_region", "unsliced_read_region"} =>
        IF ret.xSize <= 0 \/ ret.ySize <= 0
        THEN ret.kind = "empty"
        ELSE \/ ret.kind = "warped"
             \/ /\ ret.kind = "array"
                /\ ShapeOf(ret.data) = <<Min2(ret.ySize, ReadRegionMax),
                                         Min2(ret.xSize, ReadRegionMax)>>

\* ---------------------------------------------------------------------------
\* The filesystem backend client (storage/fs/_client.py)
\* ---------------------------------------------------------------------------

\* the directory mk_dirs makes for a band's tiles; the other paths name files
BandDirectory == <<-2, -2>>

\* what the filesystem holds at a directory's path
DirectoryEntry == [data |-> <<>>, size |-> 0, none |-> FALSE]

\* os.path.isfile(target_path)
IsFile(be, p) == p \in DOMAIN be /\ p # BandDirectory

\* FSClient.exist(object_path): os.path.exists(target_path)
FsExistOf(be, p) == p \in DOMAIN be

\* a delete that removes nothing
FsDeleteNothing(be, p) == be

\* FSClient.delete(object_path): the filesystem afterwards
FsDeleteOf(be, p) ==
    IF IsFile(be, p) THEN [k \in (DOMAIN be) \ {p} |-> be[k]] ELSE be

\* FSClient.mk_dirs(directory)
FsMkDirs(d) ==
    /\ nops < MaxOps
    /\ backend' = IF FsExistOf(backend, d) THEN backend ELSE Put(backend, d, DirectoryEntry)
    /\ ret' = [op |-> "mk_dirs", path |-> d, result |-> TRUE]
    /\ nops' = nops + 1
    /\ UNCHANGED <<gti, out, cache, pending, now, stored, meta>>

\* FSClient.upload_by_bytes(object_name, stream, directory); ok is whether one
\* of the four attempts to write the file succeeds
FsUploadByBytes(p, ctx, ok) ==
    /\ nops < MaxOps
    /\ backend' = IF ok THEN Put(backend, p, ctx) ELSE backend
    /\ ret' = [op |-> "upload_by_bytes", path |-> p, result |-> ok]
    /\ nops' = nops + 1
    /\ UNCHANGED <<gti, out, cache, pending, now, stored, meta>>

\* FSClient.exist(object_path)
FsExist(p) ==
    /\ nops < MaxOps
    /\ ret' = [op |-> "exist", path |-> p, result |-> FsExistOf(backend, p)]
    /\ nops' = nops + 1
    /\ UNCHANGED <<gti, out, backend, cache, pending, now, stored, meta>>

\* FSClient.delete(object_path); was records whether the path existed and
\* again whether the call before was a delete of the same path
FsDelete(p) ==
    /\ nops < MaxOps
    /\ backend' = FsDeleteOf(backend, p)
    /\ ret' = [op |-> "delete", path |-> p, was |-> FsExistOf(backend, p),
               again |-> IF ret.op = "delete" THEN ret.path = p ELSE FALSE,
               result |-> ~FsExistOf(FsDeleteOf(backend, p), p)]
    /\ nops' = nops + 1
    /\ UNCHANGED <<gti, out, cache, pending, now, stored, meta>>

\* the paths of objects: what upload_by_bytes writes and unlink deletes
ObjectPaths == CallerTiles

\* the paths handed to the client: the objects' and the band's directory
FsPaths == ObjectPaths \cup {BandDirectory}

\* a store that is empty, or holds a band's directory with or without a tile
FsInit ==
    /\ gti = GlobalTileInfo(0, 1, 0, -1, BandExtent, BandExtent, BandTileSize)
    /\ out = NoOut
    /\ backend \in { <<>>,
                     [k \in {BandDirectory} |-> DirectoryEntry],
                     [k \in {BandDirectory, <<0, 0>>} |->
                         IF k = BandDirectory THEN DirectoryEntry
                         ELSE EncodeTile(FilledArray(BandTileSize, BandTileSize, 1))] }
    /\ cache = NewCache(GlobalCacheMaxSize)
    /\ pending = {}
    /\ now = 0
    /\ ret = [op |-> "none"]
    /\ stored = <<>>
    /\ nops = 0
    /\ meta = [readonly |-> FALSE]

FsNext ==
    \/ FsMkDirs(BandDirectory)
    \/ \E p \in ObjectPaths, w \in TileWrites : FsUploadByBytes(p, EncodeTile(w[1]), w[2])
    \/ \E p \in FsPaths : FsExist(p)
    \/ \E p \in FsPaths : FsDelete(p)

SpecFs == FsInit /\ [][FsNext]_vars

\* C15: for every object path p, delete(p) succeeds whether or not p was there
\* and exist(p) is false afterwards, so a second delete(p) in a row succeeds
\* as well; deleting an absent object changes nothing.
IdempotentDelete ==
    [][ \A p \in ObjectPaths : FsDelete(p) =>
            /\ ret'.result = TRUE
            /\ ~FsExistOf(backend', p)
            /\ (~FsExistOf(backend, p) => backend' = backend) ]_vars

\* the second of two deletes in a row of the same object
IdempotentDeleteWitness ==
    /\ ret.op = "delete" /\ ret.path \in ObjectPaths
    /\ ret.again /\ ~ret.was /\ ret.result
    /\ ~FsExistOf(backend, ret.path)

\* ---------------------------------------------------------------------------
\* The cache on its own (utils/cache.py), one caller
\* ---------------------------------------------------------------------------

\* the capacity in bytes of the cache under test
CacheCapacity == 4

\* Cache._clear
CacheClearOf(c) == [c EXCEPT !.CACHE = <<>>, !.EXPIRE = <<>>, !.freeSize = c.maxsize]

\* Cache.configure(maxsize), maxsize a positive integer
CacheConfigureOf(c, m) == [c EXCEPT !.freeSize = @ + (m - c.maxsize), !.maxsize = m]

\* a value of s bytes
ValueOf(s) == [data |-> <<>>, size |-> s, none |-> FALSE]

\* the keys, the value sizes (one above the capacity) and the lifetimes used
CacheKeySet == {<<0, 0>>, <<1, 0>>, <<0, 1>>}

ValueSizes == {1, 2, 3, CacheCapacity + 1}

Lifetimes == {TickSeconds, 2 * TickSeconds}

\* the capacities handed to configure(): smaller and larger than the first
Capacities == {CacheCapacity - 2, CacheCapacity + 2}

\* a cache that is empty, or was filled at time 0 with a short-lived entry of
\* one byte and then a long-lived one of two
CacheInit ==
    /\ gti = GlobalTileInfo(0, 1, 0, -1, BandExtent, BandExtent, BandTileSize)
    /\ out = NoOut
    /\ backend = <<>>
    /\ cache \in { NewCache(CacheCapacity),
                   CacheSet(CacheSet(NewCache(CacheCapacity), <<0, 0>>, ValueOf(1),
                                     TickSeconds, 0).cache,
                            <<1, 0>>, ValueOf(2), 2 * TickSeconds, 0).cache }
    /\ pending = {}
    /\ now = 0
    /\ ret = [op |-> "none"]
    /\ stored = <<>>
    /\ nops = 0
    /\ meta = [readonly |-> FALSE]

\* global_cache.set(key, value, expire)
CallSet(k, v, expire) ==
    \E r \in {CacheSet(cache, k, v, expire, now)} :
        /\ nops < MaxOps
        /\ cache' = r.cache
        /\ ret' = [op |-> "set", key |-> k, size |-> SizeOf(v), raised |-> r.raised]
        /\ nops' = nops + 1
        /\ UNCHANGED <<gti, out, backend, pending, now, stored, meta>>

\* global_cache.get(key)
CallGet(k) ==
    \E r \in {CacheGet(cache, k, now)} :
        /\ nops < MaxOps
        /\ cache' = r.cache
        /\ ret' = [op |-> "get", key |-> k, value |-> r.value]
        /\ nops' = nops + 1
        /\ UNCHANGED <<gti, out, backend, pending, now, stored, meta>>

\* global_cache.has(key)
CallHas(k) ==
    \E r \in {CacheHas(cache, k, now)} :
        /\ nops < MaxOps
        /\ cache' = r.cache
        /\ ret' = [op |-> "has", key |-> k, has |-> r.has]
        /\ nops' = nops + 1
        /\ UNCHANGED <<gti, out, backend, pending, now, stored, meta>>

\* global_cache.delete(key)
CallDelete(k) ==
    /\ nops < MaxOps
    /\ cache' = CacheDeleteKeys(cache, {k})
    /\ ret' = [op |-> "delete", key |-> k,
               tag |-> IF k \in CacheKeys(cache) THEN 1 ELSE 0]
    /\ nops' = nops + 1
    /\ UNCHANGED <<gti, out, backend, pending, now, stored, meta>>

\* global_cache.clear()
CallClear ==
    /\ nops < MaxOps
    /\ cache' = CacheClearOf(cache)
    /\ ret' = [op |-> "clear"]
    /\ nops' = nops + 1
    /\ UNCHANGED <<gti, out, backend, pending, now, stored, meta>>

\* global_cache.configure(maxsize)
CallConfigure(m) ==
    /\ nops < MaxOps
    /\ cache' = CacheConfigureOf(cache, m)
    /\ ret' = [op |-> "configure", maxsize |-> m]
    /\ nops' = nops + 1
    /\ UNCHANGED <<gti, out, backend, pending, now, stored, meta>>

CacheNext ==
    \/ \E k \in CacheKeySet, s \in ValueSizes, e \in Lifetimes : CallSet(k, ValueOf(s), e)
    \/ \E k \in CacheKeySet : CallGet(k)
    \/ \E k \in CacheKeySet : CallHas(k)
    \/ \E k \in CacheKeySet : CallDelete(k)
    \/ CallClear
    \/ \E m \in Capacities : CallConfigure(m)
    \/ Tick

SpecCache == CacheInit /\ [][CacheNext]_vars

\* the bytes held by the entries of seq
RECURSIVE TotalSize(_)
TotalSize(seq) == IF seq = <<>> THEN 0 ELSE SizeOf(Head(seq).value) + TotalSize(Tail(seq))

\* the entries, oldest insertion first, that a set(k, ...) at time t finds once
\* the expired ones and k's own are gone
Survivors(c, k, t) == DropKeys(CacheDeleteExpired(c, t).CACHE, {k})

\* n oldest entries of pre made room for a value of sz bytes, and no fewer would
EvictedOldest(pre, post, k, v, maxsize, n) ==
    /\ post = SubSeq(pre, n + 1, Len(pre)) \o <<[key |-> k, value |-> v]>>
    /\ TotalSize(post) <= maxsize
    /\ n > 0 => TotalSize(SubSeq(pre, n, Len(pre))) + SizeOf(v) > maxsize

\* C17: a set(key, value) that lacks room evicts entries oldest insertion first
\* and only as many as are needed: what stays is the newest surviving entries in
\* their order, followed by the key just set (a re-set key becomes the newest),
\* so no entry goes while an older one stays and the key being set is never
\* evicted; a get leaves the order of the entries alone.
EvictionOrder ==
    [][ /\ \A k \in CacheKeySet, s \in ValueSizes, e \in Lifetimes :
              (CallSet(k, ValueOf(s), e) /\ ~ret'.raised) =>
                  \E n \in 0..Len(Survivors(cache, k, now)) :
                      EvictedOldest(Survivors(cache, k, now), cache'.CACHE, k,
                                    ValueOf(s), cache.maxsize, n)
        /\ \A k \in CacheKeySet :
              CallGet(k) => \E S \in SUBSET {k} : cache'.CACHE = DropKeys(cache.CACHE, S)
      ]_vars

\* a set that evicted the oldest entry alone, kept the newer one and put its
\* own key last
EvictionOrderWitness ==
    /\ ret.op = "set" /\ ~ret.raised /\ ret.key = <<0, 1>>
    /\ Len(cache.CACHE) = 2
    /\ cache.CACHE[1].key = <<1, 0>> /\ cache.CACHE[2].key = <<0, 1>>
    /\ <<0, 0>> \in DOMAIN cache.EXPIRE
    /\ cache.EXPIRE[<<0, 0>>] > now
    /\ cache.freeSize = 0

\* the stored keys whose expiry time has come at time t
ExpiredKeys(c, t) == {k \in CacheKeys(c) : k \in DOMAIN c.EXPIRE /\ c.EXPIRE[k] <= t}

\* C18: when a has(key) or a get(key) returns, no entry whose expiry time is <=
\* now is left in the cache and the free size counts their bytes as free; has
\* never reports, and get never returns, an entry whose expiry time has come.
ExpirationSweep ==
    [][ /\ \A k \in CacheKeySet : (CallHas(k) \/ CallGet(k)) =>
              /\ ExpiredKeys(cache', now) = {}
              /\ cache'.freeSize = cache'.maxsize - TotalSize(cache'.CACHE)
        /\ \A k \in CacheKeySet : CallHas(k) =>
              (ret'.has => k \notin ExpiredKeys(cache, now))
        /\ \A k \in CacheKeySet : CallGet(k) =>
              (~ret'.value.none => k \notin ExpiredKeys(cache, now))
      ]_vars

\* C19: after every call the bytes stored do not exceed maxsize and the free
\* size is within 0..maxsize; a set of a value larger than maxsize raises and
\* stores nothing (beyond its sweep of expired entries, the cache is as before).
CapacityBound ==
    [][ /\ TotalSize(cache'.CACHE) <= cache'.maxsize
        /\ cache'.freeSize >= 0 /\ cache'.freeSize <= cache'.maxsize
        /\ \A k \in CacheKeySet, s \in ValueSizes, e \in Lifetimes :
              (CallSet(k, ValueOf(s), e) /\ s > cache.maxsize) =>
                  (ret'.raised /\ cache' = CacheDeleteExpired(cache, now))
      ]_vars

\* ---------------------------------------------------------------------------
\* The cache under several threads: every public call runs inside _LOCK
\* ---------------------------------------------------------------------------

\* the threads calling the cache
CacheThreads == {1, 2}

\* the lock is taken wherever the mutual exclusion is switched off
LockFreeAlways(P) == TRUE

\* _LOCK is free: no call of another thread is past its `with self._LOCK`
LockFree(P) == \A p \in P : p.stage = "waiting"

\* the calls threads make: <<op, key, value, expire>>
ThreadCalls ==
    { <<"set", k, ValueOf(s), e>> : k \in {<<0, 0>>, <<0, 1>>}, s \in {2, 3, CacheCapacity + 1},
                                    e \in {TickSeconds} }
    \cup { <<o, k, NoneValue, 0>> : o \in {"get", "has", "delete"}, k \in {<<0, 0>>, <<1, 0>>} }

\* a thread enters get, set, delete or has and waits for _LOCK
Invoke(t, call) ==
    /\ nops < MaxOps
    /\ \A p \in pending : p.thread # t
    /\ pending' = pending \cup {[thread |-> t, stage |-> "waiting", op |-> call[1],
                                 key |-> call[2], value |-> call[3], expire |-> call[4],
                                 seen |-> NewCache(CacheCapacity), t0 |-> 0, free |-> 0]}
    /\ nops' = nops + 1
    /\ UNCHANGED <<gti, out, backend, cache, now, ret, stored, meta>>

\* get, has or delete, from taking _LOCK to releasing it
RunLocked(p) ==
    /\ p.stage = "waiting" /\ p.op \in {"get", "has", "delete"}
    /\ LockFree(pending \ {p})
    /\ pending' = pending \ {p}
    /\ \/ /\ p.op = "get"
          /\ \E r \in {CacheGet(cache, p.key, now)} :
                /\ cache' = r.cache
                /\ ret' = [op |-> "get", thread |-> p.thread, key |-> p.key,
                           value |-> r.value, raised |-> FALSE]
       \/ /\ p.op = "has"
          /\ \E r \in {CacheHas(cache, p.key, now)} :
                /\ cache' = r.cache
                /\ ret' = [op |-> "has", thread |-> p.thread, key |-> p.key,
                           has |-> r.has, raised |-> FALSE]
       \/ /\ p.op = "delete"
          /\ cache' = CacheDeleteKeys(cache, {p.key})
          /\ ret' = [op |-> "delete", thread |-> p.thread, key |-> p.key,
                     tag |-> IF p.key \in CacheKeys(cache) THEN 1 ELSE 0,
                     raised |-> FALSE]
    /\ UNCHANGED <<gti, out, backend, now, stored, nops, meta>>

\* set takes _LOCK: the sweep, the size check, the delete of the old entry, the
\* eviction and `self._CACHE[key] = value`
SetStore(p) ==
    /\ p.stage = "waiting" /\ p.op = "set"
    /\ LockFree(pending \ {p})
    /\ \E c1 \in {CacheDeleteExpired(cache, now)} :
         IF SizeOf(p.value) > c1.maxsize
         THEN /\ cache' = c1
              /\ pending' = pending \ {p}
              /\ ret' = [op |-> "set", thread |-> p.thread, key |-> p.key,
                         size |-> SizeOf(p.value), raised |-> TRUE]
         ELSE /\ cache' = [CacheEvict(IF p.key \in CacheKeys(c1)
                                      THEN CacheDeleteKeys(c1, {p.key}) ELSE c1,
                                      SizeOf(p.value))
                           EXCEPT !.CACHE = Append(@, [key |-> p.key, value |-> p.value])]
              /\ pending' = (pending \ {p}) \cup
                            {[p EXCEPT !.stage = "stored", !.seen = cache, !.t0 = now]}
              /\ UNCHANGED ret
    /\ UNCHANGED <<gti, out, backend, now, stored, nops, meta>>

\* `self.freeSize -= value_size` loads the counter ...
SetLoad(p) ==
    /\ p.stage = "stored"
    /\ pending' = (pending \ {p}) \cup {[p EXCEPT !.stage = "loaded", !.free = cache.freeSize]}
    /\ UNCHANGED <<gti, out, backend, cache, now, ret, stored, nops, meta>>

\* ... and stores the difference
SetCount(p) ==
    /\ p.stage = "loaded"
    /\ cache' = [cache EXCEPT !.freeSize = p.free - SizeOf(p.value)]
    /\ pending' = (pending \ {p}) \cup {[p EXCEPT !.stage = "counted"]}
    /\ UNCHANGED <<gti, out, backend, now, ret, stored, nops, meta>>

\* `self._EXPIRE_DICT[key] = _get_timestamp(expire)`, and _LOCK is released
SetExpire(p) ==
    /\ p.stage = "counted"
    /\ cache' = [cache EXCEPT !.EXPIRE = Put(@, p.key, now + p.expire)]
    /\ pending' = pending \ {p}
    /\ ret' = [op |-> "set", thread |-> p.thread, key |-> p.key,
               size |-> SizeOf(p.value), raised |-> FALSE]
    /\ UNCHANGED <<gti, out, backend, now, stored, nops, meta>>

ThreadNext ==
    \/ \E t \in CacheThreads, call \in ThreadCalls : Invoke(t, call)
    \/ \E p \in pending : RunLocked(p)
    \/ \E p \in pending : SetStore(p)
    \/ \E p \in pending : SetLoad(p)
    \/ \E p \in pending : SetCount(p)
    \/ \E p \in pending : SetExpire(p)
    \/ Tick

SpecCacheThreads == CacheInit /\ [][ThreadNext]_vars

\* no call is past its `with self._LOCK`
Quiet(P) == \A p \in P : p.stage = "waiting"

\* C16: under every interleaving of get, set, delete and has from several
\* threads at most one call is inside the lock at a time; a set that completes
\* leaves the entries and the free size that the whole call gives on the cache
\* it found; no call raises except a set of a value larger than maxsize; and
\* whenever no call is inside the lock, the free size is maxsize minus the
\* bytes stored and every stored key has an expiry entry.
CacheThreadSafety ==
    [][ /\ Cardinality({p \in pending' : p.stage # "waiting"}) <= 1
        /\ Quiet(pending') =>
              /\ cache'.freeSize = cache'.maxsize - TotalSize(cache'.CACHE)
              /\ CacheKeys(cache') \subseteq DOMAIN cache'.EXPIRE
        /\ \A p \in pending : SetExpire(p) =>
              \E r \in {CacheSet(p.seen, p.key, p.value, p.expire, p.t0).cache} :
                  /\ cache'.CACHE = r.CACHE
                  /\ cache'.freeSize = r.freeSize
                  /\ cache'.EXPIRE = Put(r.EXPIRE, p.key, now + p.expire)
        /\ (ret'.op # "none" /\ ret'.raised) =>
              (ret'.op = "set" /\ ret'.size > cache'.maxsize)
      ]_vars

\* one thread is in the middle of a set, between storing the value and counting
\* its bytes, while another waits at the lock to set the same key
CacheThreadSafetyWitness ==
    \E p, q \in pending :
        /\ p.stage = "loaded" /\ q.stage = "waiting"
        /\ q.op = "set" /\ q.key = p.key
        /\ cache.freeSize # cache.maxsize - TotalSize(cache.CACHE)

\* ---------------------------------------------------------------------------
\* Image and band metadata (dm/meta/_api_impl.py over dm/db/mongo)
\* ---------------------------------------------------------------------------

\* the datasources (collection suffixes) of the configuration, the path aliases
\* mapped to them (config.datasource_mapper), and the aliases allowed to delete
DatasourceNames == {"default", "archive"}

Aliases == {"test", "arch"}

DatasourceMapper == [a \in Aliases |-> IF a = "test" THEN "default" ELSE "archive"]

DeleteAllowed == Aliases

\* config.base_datasource: the first datasource of the configuration
BaseDatasource == "default"

\* paths /edm_store/<alias>/scene.IMAGE and /edm_store/<alias>/b1.BAND
ImagePaths == {<<a, "scene">> : a \in Aliases}

BandPaths == {<<a, "b1">> : a \in Aliases}

\* the object of tile (x, y) of the band at path b
TilePath(b, x, y) == <<IF b[1] = "test" THEN 1 ELSE 2, x, y>>

EmptyDb == [image |-> [d \in DatasourceNames |-> {}], band |-> [d \in DatasourceNames |-> {}]]

\* getImage(image_path, dataset) / getBand(band_path, dataset): the documents found
FoundImages(db, p, d) == {doc \in db.image[d] : doc.image_path = p}

FoundBands(db, b, d) == {doc \in db.band[d] : doc.band_path = b}

\* the lookups of unlink_image: getImage(image_path), getBand(bandPath)
UnlinkFoundImages(db, p) == FoundImages(db, p, "default")

UnlinkFoundBands(db, b) == FoundBands(db, b, "default")

\* exist_image(image_path) / exist_band(band_path)
ExistImageOf(db, p) == FoundImages(db, p, DatasourceMapper[p[1]]) # {}

ExistBandOf(db, b) == FoundBands(db, b, DatasourceMapper[b[1]]) # {}

\* the bands of unlink_image's loop that have metadata
UnlinkedBands(db, p) ==
    {b \in UNION {doc.bands : doc \in UnlinkFoundImages(db, p)} : UnlinkFoundBands(db, b) # {}}

\* unlink_image(image_path), concurrency = False: the tiles of every band found
\* are deleted, then the band's and the image's metadata
UnlinkImageOf(db, be, g, p) ==
    IF p[1] \notin DeleteAllowed
    THEN [raised |-> TRUE, error |-> "Illegal deletion", db |-> db, be |-> be]
    ELSE IF UnlinkFoundImages(db, p) = {}
    THEN [raised |-> TRUE, error |-> "Can't find band or image", db |-> db, be |-> be]
    ELSE LET listed == UNION {doc.bands : doc \in UnlinkFoundImages(db, p)}
             gone == {TilePath(b, GetTiles(g)[i][1], GetTiles(g)[i][2]) :
                          b \in UnlinkedBands(db, p), i \in DOMAIN GetTiles(g)}
         IN  [raised |-> FALSE, error |-> "",
              db |-> [image |-> [db.image EXCEPT !["default"] =
                                    {doc \in @ : doc.image_path # p}],
                      band |-> [db.band EXCEPT !["default"] =
                                    {doc \in @ : doc.band_path \notin listed}]],
              be |-> [k \in (DOMAIN be) \ gone |-> be[k]]]

\* create_band(..., band_path): the metadata goes to the base datasource
MetaCreateBand(b) ==
    /\ nops < MaxOps
    /\ meta' = [meta EXCEPT !.db.band[BaseDatasource] =
                    @ \cup {[band_path |-> b, cropped |-> TRUE]}]
    /\ ret' = [op |-> "create_band", path |-> b, result |-> TRUE]
    /\ nops' = nops + 1
    /\ UNCHANGED <<gti, out, backend, cache, pending, now, stored>>

\* create_image(..., image_path, bands): the metadata goes to the path's datasource
MetaCreateImage(p, bands) ==
    /\ nops < MaxOps
    /\ bands # {}
    /\ meta' = [meta EXCEPT !.db.image[DatasourceMapper[p[1]]] =
                    @ \cup {[image_path |-> p, bands |-> bands]}]
    /\ ret' = [op |-> "create_image", path |-> p, result |-> TRUE]
    /\ nops' = nops + 1
    /\ UNCHANGED <<gti, out, backend, cache, pending, now, stored>>

\* exist(path) for an image or a band path
MetaExist(p) ==
    /\ nops < MaxOps
    /\ ret' = [op |-> "exist", path |-> p,
               result |-> IF p \in ImagePaths THEN ExistImageOf(meta.db, p)
                          ELSE ExistBandOf(meta.db, p)]
    /\ nops' = nops + 1
    /\ UNCHANGED <<gti, out, backend, cache, pending, now, stored, meta>>

\* unlink(path) for an image path
MetaUnlinkImage(p) ==
    \E r \in {UnlinkImageOf(meta.db, backend, gti, p)} :
        /\ nops < MaxOps
        /\ meta' = [meta EXCEPT !.db = r.db]
        /\ backend' = r.be
        /\ ret' = [op |-> "unlink_image", path |-> p, result |-> ~r.raised,
                   raised |-> r.raised, error |-> r.error]
        /\ nops' = nops + 1
        /\ UNCHANGED <<gti, out, cache, pending, now, stored>>

\* an image with one band and one stored tile, kept in datasource d
StoredImage(d) ==
    LET a == CHOOSE x \in Aliases : DatasourceMapper[x] = d
    IN  [db |-> [image |-> [e \in DatasourceNames |->
                               IF e = d THEN {[image_path |-> <<a, "scene">>,
                                               bands |-> {<<a, "b1">>}]} ELSE {}],
                 band |-> [e \in DatasourceNames |->
                              IF e = d THEN {[band_path |-> <<a, "b1">>, cropped |-> TRUE]}
                              ELSE {}]],
         be |-> [k \in {TilePath(<<a, "b1">>, 0, 0)} |->
                    EncodeTile(FilledArray(BandTileSize, BandTileSize, 1))]]

\* an empty store, or one holding an image and its band in the base datasource
MetaInit ==
    /\ gti = GlobalTileInfo(0, 1, 0, -1, BandExtent, BandExtent, BandTileSize)
    /\ out = NoOut
    /\ \E s \in {[db |-> EmptyDb, be |-> <<>>], StoredImage(BaseDatasource)} :
         /\ meta = [readonly |-> FALSE, db |-> s.db]
         /\ backend = s.be
    /\ cache = NewCache(GlobalCacheMaxSize)
    /\ pending = {}
    /\ now = 0
    /\ ret = [op |-> "none"]
    /\ stored = <<>>
    /\ nops = 0

MetaNext ==
    \/ \E b \in BandPaths : MetaCreateBand(b)
    \/ \E p \in ImagePaths, bs \in SUBSET BandPaths : MetaCreateImage(p, bs)
    \/ \E p \in ImagePaths \cup BandPaths : MetaExist(p)
    \/ \E p \in ImagePaths : MetaUnlinkImage(p)

SpecMeta == MetaInit /\ [][MetaNext]_vars

\* C20: unlink of an image that exists, in a datasource that allows deletion,
\* succeeds, and afterwards neither the image nor any band of its band map
\* exists, whichever datasource holds them.
UnlinkCascades ==
    [][ \A p \in ImagePaths :
            (MetaUnlinkImage(p) /\ p[1] \in DeleteAllowed /\ ExistImageOf(meta.db, p)) =>
                /\ ret'.result = TRUE
                /\ ~ExistImageOf(meta'.db, p)
                /\ \A doc \in FoundImages(meta.db, p, DatasourceMapper[p[1]]) :
                       \A b \in doc.bands : ~ExistBandOf(meta'.db, b) ]_vars

----------------------------------------------------------------------------
(* Region writes over tiles that are already stored.                       *)

\* the transform of a write_region whose data starts dx, dy pixels into tile (x0, y0)
RegionTransform(g, x0, y0, dx, dy) ==
    LET ti == TileInfo(g, x0, y0)
    IN  [ox |-> ti.ox + dx * ti.sx, sx |-> ti.sx, oy |-> ti.oy + dy * ti.sy, sy |-> ti.sy]

\* pixel (r, c), 0-based, lies outside the ReadRect <<c0, c1, r0, r1>>
OutsideRect(rect, r, c) == r < rect[3] \/ r > rect[4] \/ c < rect[1] \/ c > rect[2]

\* the pixels of tile k outside rect are the same in the blobs a and b
SameOutside(a, b, rect) ==
    \A r \in 1..Len(a.data) : \A c \in 1..Len(a.data[r]) :
        OutsideRect(rect, r - 1, c - 1) => a.data[r][c] = b.data[r][c]

\* C21: every tile a write_region stores keeps, outside the plan entry's
\* ReadRect, the pixels the backend held for that tile just before the call.
RegionWritePreserves ==
    [][ \A w \in RegionWrites, fail \in 0..1 :
            WriteRegion(0, 0, w[1], w[2], w[3], fail) =>
                \A plan \in { CalculateReadWindowOfSlicedBand(gti,
                                  RegionTransform(gti, 0, 0, w[1], w[2]),
                                  Len(w[3][1]), Len(w[3]), 0) } :
                    (plan.kind = "plan" /\ ret'.written # {}) =>
                        \A i \in DOMAIN plan.infos :
                            (plan.infos[i].tile \in ret'.written
                                /\ plan.infos[i].tile \in DOMAIN backend) =>
                                SameOutside(backend'[plan.infos[i].tile],
                                            backend[plan.infos[i].tile],
                                            plan.infos[i].read)
      ]_vars

----------------------------------------------------------------------------
(* Tasks handed to the shared thread pool (dm/raster/_io.py).              *)

\* positional parameters of _upload_tile(client, x, y, ctx, fa_directory) and
\* of _delete_tiles(client, x, y, fa_directory)
WorkerArity == [upload |-> 5, delete |-> 4]

\* upload_tiles / delete_tiles: submit(fn, (client, x, y, ...,)) hands the
\* worker function ONE positional argument, the tuple
UploadTask(id, x, y, ctx) ==
    [id |-> id, fn |-> "upload", args |-> << <<"client", x, y, ctx, "dir">> >>]

DeleteTask(id, x, y) ==
    [id |-> id, fn |-> "delete", args |-> << <<"client", x, y, "dir">> >>]

\* the backend operation the caller asked for with a task
Requested(task) ==
    LET a == task.args[1]
    IN  IF task.fn = "upload" THEN [fn |-> "upload", x |-> a[2], y |-> a[3], ctx |-> a[4]]
        ELSE [fn |-> "delete", x |-> a[2], y |-> a[3]]

\* a worker runs fn(*args): a call with the wrong number of positional
\* arguments raises TypeError, which stays in the future nobody reads
WorkerCall(task, be) ==
    IF Len(task.args) # WorkerArity[task.fn]
    THEN [raised |-> TRUE, be |-> be, ran |-> {}]
    ELSE IF task.fn = "upload"
    THEN [raised |-> FALSE, be |-> Put(be, <<task.args[2], task.args[3]>>, task.args[4]),
          ran |-> {[fn |-> "upload", x |-> task.args[2], y |-> task.args[3],
                    ctx |-> task.args[4]]}]
    ELSE [raised |-> FALSE,
          be |-> FsDeleteOf(be, <<task.args[2], task.args[3]>>),
          ran |-> {[fn |-> "delete", x |-> task.args[2], y |-> task.args[3]]}]

\* SlicedBand.write_tile(x, y, array, concurrency=True): the tile is composed
\* and handed to upload_tiles; the call returns True at once
PoolWriteTile(x, y, a) ==
    LET refused == meta.readonly \/ ~Writeable(gti)
        badShape == ShapeOf(a) # <<gti.tileSize, gti.tileSize>>
        handed == ~refused /\ ~badShape
    IN  /\ nops < MaxOps
        /\ pending' = IF handed THEN pending \cup {UploadTask(nops, x, y, EncodeTile(a))}
                      ELSE pending
        /\ ret' = [op |-> "write_tile", x |-> x, y |-> y, concurrency |-> TRUE,
                   result |-> handed]
        /\ nops' = nops + 1
        /\ UNCHANGED <<gti, out, backend, cache, now, stored, meta>>

\* unlink(band_path, concurrency=True) of the sliced band: one delete_tiles
\* task per tile of get_tiles(), then the band's metadata is deleted
PoolUnlink ==
    /\ nops < MaxOps
    /\ meta.linked
    /\ pending' = pending \cup
                    {DeleteTask(nops, GetTiles(gti)[i][1], GetTiles(gti)[i][2]) :
                         i \in DOMAIN GetTiles(gti)}
    /\ meta' = [meta EXCEPT !.linked = FALSE]
    /\ ret' = [op |-> "unlink", concurrency |-> TRUE, result |-> TRUE]
    /\ nops' = nops + 1
    /\ UNCHANGED <<gti, out, backend, cache, now, stored>>

\* a pool worker takes a task and calls its function
PoolRun(task) ==
    \E r \in {WorkerCall(task, backend)} :
        /\ task \in pending
        /\ pending' = pending \ {task}
        /\ backend' = r.be
        /\ stored' = stored \cup r.ran
        /\ UNCHANGED <<gti, out, cache, now, ret, nops, meta>>

\* arrays handed to write_tile: two T x T tiles and one of the wrong shape
PoolArrays == { FilledArray(BandTileSize, BandTileSize, 1),
                FilledArray(BandTileSize, BandTileSize, 2),
                FilledArray(BandTileSize + 1, BandTileSize, 1) }

\* a band whose tile (0, 0) may already be stored, opened writable or read-only;
\* stored is the set of backend operations the workers have carried out
PoolInit ==
    /\ gti = GlobalTileInfo(0, 1, 0, -1, BandExtent, BandExtent, BandTileSize)
    /\ out = NoOut
    /\ backend \in {<<>>, [k \in {<<0, 0>>} |->
                              EncodeTile(FilledArray(BandTileSize, BandTileSize, 1))]}
    /\ stored = {}
    /\ cache = NewCache(GlobalCacheMaxSize)
    /\ pending = {}
    /\ now = 0
    /\ ret = [op |-> "none"]
    /\ nops = 0
    /\ meta \in {[readonly |-> r, linked |-> TRUE] : r \in BOOLEAN}

PoolNext ==
    \/ \E k \in CallerTiles, a \in PoolArrays : PoolWriteTile(k[1], k[2], a)
    \/ PoolUnlink
    \/ \E task \in pending : PoolRun(task)

\* every submitted task is taken by one of the pool's workers
SpecPool ==
    /\ PoolInit /\ [][PoolNext]_vars
    /\ \A id \in 0..MaxOps : WF_vars(\E task \in pending : task.id = id /\ PoolRun(task))

\* every task the pool can be handed
PoolTasks ==
    {UploadTask(id, k[1], k[2], EncodeTile(a)) :
         id \in 0..MaxOps, k \in CallerTiles, a \in PoolArrays}
    \cup {DeleteTask(id, x, y) :
              id \in 0..MaxOps, x \in 0..(BandTilesPerSide - 1), y \in 0..(BandTilesPerSide - 1)}

\* C22: every task handed to the pool eventually runs its backend operation
\* with the arguments it was handed.
TasksEventuallyRun ==
    \A task \in PoolTasks : (task \in pending) ~> (Requested(task) \in stored)

----------------------------------------------------------------------------
(* The retry loop of the filesystem client's uploads.                      *)

\* the most failing attempts in a row that a call meets
MaxFailures == 5

\* the loop with `times > 4` in place of `times > 3`
RECURSIVE UploadLoopLate(_, _, _)
UploadLoopLate(times, attempts, failing) ==
    IF attempts + 1 > failing
    THEN [ok |-> TRUE, attempts |-> attempts + 1]
    ELSE IF times + 1 > 4
    THEN [ok |-> FALSE, attempts |-> attempts + 1]
    ELSE UploadLoopLate(times + 1, attempts + 1, failing)

\* `while True: try: write; return True ... except: times += 1; if times > 3:
\* return False; continue`, where the first `failing` attempts raise
RECURSIVE UploadLoop(_, _, _)
UploadLoop(times, attempts, failing) ==
    IF attempts + 1 > failing
    THEN [ok |-> TRUE, attempts |-> attempts + 1]
    ELSE IF times + 1 > 3
    THEN [ok |-> FALSE, attempts |-> attempts + 1]
    ELSE UploadLoop(times + 1, attempts + 1, failing)

\* FSClient.upload_by_bytes(object_name, stream, directory): returns the pair
\* (ok, target_file_path)
RetryUploadByBytes(p, ctx, failing) ==
    \E r \in {UploadLoop(0, 0, failing)} :
        /\ nops < MaxOps
        /\ backend' = IF r.ok THEN Put(backend, p, ctx) ELSE backend
        /\ ret' = [op |-> "upload_by_bytes", path |-> p, ctx |-> ctx, failing |-> failing,
                   attempts |-> r.attempts, result |-> <<r.ok, p>>]
        /\ nops' = nops + 1
        /\ UNCHANGED <<gti, out, cache, pending, now, stored, meta>>

\* FSClient.upload_by_file(file_name, object_name, directory): returns ok
RetryUploadByFile(p, ctx, failing) ==
    \E r \in {UploadLoop(0, 0, failing)} :
        /\ nops < MaxOps
        /\ backend' = IF r.ok THEN Put(backend, p, ctx) ELSE backend
        /\ ret' = [op |-> "upload_by_file", path |-> p, ctx |-> ctx, failing |-> failing,
                   attempts |-> r.attempts, result |-> r.ok]
        /\ nops' = nops + 1
        /\ UNCHANGED <<gti, out, cache, pending, now, stored, meta>>

\* uploads of two contents to the object paths, meeting 0..MaxFailures failing
\* attempts before the write works
RetryNext ==
    \/ \E p \in ObjectPaths, v \in 1..2, failing \in 0..MaxFailures :
           RetryUploadByBytes(p, EncodeTile(FilledArray(BandTileSize, BandTileSize, v)), failing)
    \/ \E p \in ObjectPaths, v \in 1..2, failing \in 0..MaxFailures :
           RetryUploadByFile(p, EncodeTile(FilledArray(BandTileSize, BandTileSize, v)), failing)

SpecRetry == FsInit /\ [][RetryNext]_vars

\* the call just made is an upload
Uploaded == ret.op \in {"upload_by_bytes", "upload_by_file"}

\* the call just made reports success / failure in its own return shape
ReportsSuccess ==
    IF ret.op = "upload_by_bytes" THEN ret.result = <<TRUE, ret.path>> ELSE ret.result = TRUE

ReportsFailure ==
    IF ret.op = "upload_by_bytes" THEN ret.result = <<FALSE, ret.path>> ELSE ret.result = FALSE

\* C23 (as stated): an upload makes at most three attempts in total; it reports
\* failure when all of them fail and success as soon as one succeeds.
RetryAtMostThree ==
    Uploaded =>
        /\ ret.attempts <= 3
        /\ (ret.failing >= 3 => ReportsFailure)
        /\ (ret.failing < 3 =>
                ReportsSuccess /\ ret.attempts = ret.failing + 1
                    /\ backend[ret.path] = ret.ctx)

\* C23 (amended): an upload makes at most four attempts in total, the first
\* and three retries; it reports failure when all four fail and stops with
\* success at the first attempt that succeeds.
RetryAtMostFour ==
    Uploaded =>
        /\ ret.attempts <= 4
        /\ (ret.failing >= 4 => ReportsFailure /\ ret.attempts = 4)
        /\ (ret.failing < 4 =>
                ReportsSuccess /\ ret.attempts = ret.failing + 1
                    /\ backend[ret.path] = ret.ctx)

\* an upload whose first three attempts failed and whose fourth succeeded, and
\* before it one whose attempts all failed
RetryAtMostFourWitness ==
    /\ Uploaded /\ ret.failing = 3 /\ ret.attempts = 4 /\ ReportsSuccess
    /\ nops >= 2

----------------------------------------------------------------------------
(* The pyramid table of lattices of every tile size.                       *)

\* the tile sizes a band may be cut with
PyramidTileSizes == {256, 512, 1024, 2048}

\* raster widths and heights, from a few pixels to more than a million
PyramidLengths == {5, 3000, 140000, 1100000}

\* GlobalTileInfo.factors() called on the lattice
PyramidFactors ==
    /\ Settled
    /\ out' = [op |-> "factors",
               res |-> Factors(gti.tileSize, gti.reSize, gti.rangeX, gti.rangeY,
                               gti.scalaX, gti.scalaY)]
    /\ UNCHANGED <<gti, bandVars>>

\* lattices built without explicit factors
PyramidInit ==
    /\ \E T \in PyramidTileSizes, w \in PyramidLengths, h \in PyramidLengths :
         gti = GlobalTileInfo(0, 1, 0, -1, w, h, T)
    /\ out = NoOut
    /\ backend = <<>>
    /\ cache = NewCache(GlobalCacheMaxSize)
    /\ pending = {}
    /\ now = 0
    /\ ret = [op |-> "none"]
    /\ stored = <<>>
    /\ nops = 0
    /\ meta = [readonly |-> FALSE]

\* factors(), resize() and the plan of the first pixel at every level
PyramidNext ==
    \/ PyramidFactors
    \/ \E t \in {gti.tileSize, gti.tileSize \div 2} : Resize(t)
    \/ \E z \in Zooms(gti) : CalculateSliced(<<0, 0, 1>>, <<0, 0, 1>>, 1, z)

SpecPyramid == PyramidInit /\ [][PyramidNext]_vars

\* the relations of one pyramid table with native scales sx, sy and tile size T
TableRelations(tab, sx, sy, T) ==
    /\ tab.factors[1] = 1
    /\ \A k \in DOMAIN tab.factors :
           /\ tab.factors[k] = 2 ^ (k - 1)
           /\ tab.scalaXList[k] = sx * tab.factors[k]
           /\ tab.scalaYList[k] = sy * tab.factors[k]
           /\ tab.tileSizeList[k] * tab.factors[k] = T
           /\ tab.tileSizeList[k] > 0

\* C24: the table synthesised for a lattice, and the one factors() returns,
\* have factor 2^k, scales sx * 2^k and sy * 2^k, and a positive tile size
\* T / 2^k at every level k; no plan divides by a zero tile size.
PyramidRelations ==
    /\ TableRelations(gti, gti.scalaX, gti.scalaY, gti.tileSize)
    /\ out.op = "factors" => TableRelations(out.res, gti.scalaX, gti.scalaY, gti.tileSize)
    /\ out.op = "sliced" => out.res.kind # "raise"

----------------------------------------------------------------------------
(* open_dataset over the metadata store and the process-wide cache.        *)

\* band paths opened, the tile_size arguments (0 stands for None) and the
\* metadata a band is created with
OpenPaths == {"a.BAND", "b.BAND"}

OpenTileSizes == {0, BandTileSize \div 2}

MetadataVersions == {1, 2}

\* sys.getsizeof of a Band object
BandObjectSize == 48

\* SlicedBand(metadata, tile_size)
BandObject(p, version, ts) ==
    [size |-> BandObjectSize, none |-> FALSE, path |-> p, metadata |-> version,
     tile_size |-> ts]

\* the cache key str(path) + '_' + str(tile_size)
OpenKey(p, ts) == <<p, ts>>

\* open_dataset(path, tile_size) at time t over the bands of the metadata store
OpenDatasetOf(c, bands, p, ts, t) ==
    LET h == CacheHas(c, OpenKey(p, ts), t)
    IN  IF h.has
        THEN LET g == CacheGet(h.cache, OpenKey(p, ts), t)
             IN  [cache |-> g.cache, raised |-> FALSE, band |-> g.value]
        ELSE IF bands[p] = 0
        THEN [cache |-> h.cache, raised |-> TRUE, band |-> NoneValue]
        ELSE LET dataset == BandObject(p, bands[p], ts)
             IN  [cache |-> CacheSet(h.cache, OpenKey(p, ts), dataset, CacheTileExpire, t).cache,
                  raised |-> FALSE, band |-> dataset]

OpenDataset(p, ts) ==
    \E r \in {OpenDatasetOf(cache, meta.bands, p, ts, now)} :
        /\ nops < MaxOps
        /\ cache' = r.cache
        /\ ret' = [op |-> "open_dataset", path |-> p, tile_size |-> ts,
                   raised |-> r.raised, band |-> r.band]
        /\ nops' = nops + 1
        /\ UNCHANGED <<gti, out, backend, pending, now, stored, meta>>

\* create_band(..., band_path, ...) with metadata v
OpenCreateBand(p, v) ==
    /\ nops < MaxOps
    /\ meta.bands[p] = 0
    /\ meta' = [meta EXCEPT !.bands[p] = v]
    /\ ret' = [op |-> "create_band", path |-> p, result |-> TRUE]
    /\ nops' = nops + 1
    /\ UNCHANGED <<gti, out, backend, cache, pending, now, stored>>

\* unlink(band_path): raises when there is no such band, else deletes it
OpenUnlink(p) ==
    /\ nops < MaxOps
    /\ meta' = [meta EXCEPT !.bands[p] = 0]
    /\ ret' = [op |-> "unlink", path |-> p, raised |-> meta.bands[p] = 0,
               result |-> meta.bands[p] # 0]
    /\ nops' = nops + 1
    /\ UNCHANGED <<gti, out, backend, cache, pending, now, stored>>

\* a fresh process over a store with no band, or with band a.BAND
OpenInit ==
    /\ gti = GlobalTileInfo(0, 1, 0, -1, BandExtent, BandExtent, BandTileSize)
    /\ out = NoOut
    /\ backend = <<>>
    /\ cache = NewCache(GlobalCacheMaxSize)
    /\ pending = {}
    /\ now = 0
    /\ ret = [op |-> "none"]
    /\ stored = <<>>
    /\ nops = 0
    /\ meta \in {[readonly |-> FALSE, bands |-> [p \in OpenPaths |-> 0]],
                 [readonly |-> FALSE,
                  bands |-> [p \in OpenPaths |-> IF p = "a.BAND" THEN 1 ELSE 0]]}

OpenNext ==
    \/ \E p \in OpenPaths, ts \in OpenTileSizes : OpenDataset(p, ts)
    \/ \E p \in OpenPaths, v \in MetadataVersions : OpenCreateBand(p, v)
    \/ \E p \in OpenPaths : OpenUnlink(p)
    \/ Tick

SpecOpen == OpenInit /\ [][OpenNext]_vars

\* C25: open_dataset raises when the store has no band at the path, and
\* otherwise returns a Band built from the metadata the store holds now.
NoStaleHandle ==
    [][ \A p \in OpenPaths, ts \in OpenTileSizes :
            OpenDataset(p, ts) =>
                IF meta.bands[p] = 0 THEN ret'.raised
                ELSE ~ret'.raised /\ ret'.band.metadata = meta.bands[p] ]_vars

----------------------------------------------------------------------------
(* Readers that ask has() and then get(), beside other threads' calls.     *)

\* the two callers of the has-then-get pattern
ReaderUses == {"read_from_access_path", "open_dataset"}

\* `if global_cache.has(key):` -- the reader's first locked call
ReaderHas(use, k) ==
    \E h \in {CacheHas(cache, k, now)} :
        /\ nops < MaxOps
        /\ pending = {}
        /\ cache' = h.cache
        /\ pending' = {[use |-> use, key |-> k,
                        stage |-> IF h.has THEN "checked" ELSE "missed"]}
        /\ nops' = nops + 1
        /\ UNCHANGED <<gti, out, backend, now, ret, stored, meta>>

\* `_from_memory(global_cache.get(key), ...)` / `return global_cache.get(key)`:
\* the second locked call, and what it hands on
ReaderGet(p) ==
    \E g \in {CacheGet(cache, p.key, now)} :
        /\ p.stage = "checked"
        /\ cache' = g.cache
        /\ pending' = pending \ {p}
        /\ ret' = [op |-> p.use, key |-> p.key, source |-> "memory", value |-> g.value]
        /\ UNCHANGED <<gti, out, backend, now, stored, nops, meta>>

\* the miss: the tile is read from its access path, the dataset is built and
\* stored with global_cache.set(key, dataset, 3600)
ReaderMiss(p) ==
    /\ p.stage = "missed"
    /\ cache' = IF p.use = "open_dataset"
                THEN CacheSet(cache, p.key, ValueOf(1), CacheTileExpire, now).cache
                ELSE cache
    /\ pending' = pending \ {p}
    /\ ret' = [op |-> p.use, key |-> p.key, source |-> "store", value |-> ValueOf(1)]
    /\ UNCHANGED <<gti, out, backend, now, stored, nops, meta>>

\* a reader beside threads that set, delete and clear, and the clock
ReaderNext ==
    \/ \E use \in ReaderUses, k \in CacheKeySet : ReaderHas(use, k)
    \/ \E p \in pending : ReaderGet(p)
    \/ \E p \in pending : ReaderMiss(p)
    \/ \E k \in CacheKeySet, s \in ValueSizes, e \in Lifetimes : CallSet(k, ValueOf(s), e)
    \/ \E k \in CacheKeySet : CallDelete(k)
    \/ CallClear
    \/ Tick

SpecReader == CacheInit /\ [][ReaderNext]_vars

\* C26: what a reader takes from the cache after has() answered true is the
\* cached value, never the empty default.
HasThenGet ==
    (ret.op \in ReaderUses /\ ret.source = "memory") => ~ret.value.none

----------------------------------------------------------------------------
(* unlink of a sliced band after tile and region writes.                   *)

\* the tile indices callers pass to write_tile: tiles of the lattice, and one
\* column to the left and to the right of it
WrittenTiles == CallerTiles \cup {<<-1, 0>>, <<BandTilesPerSide, 0>>}

\* unlink(band_path), concurrency = False: client.delete of every tile of
\* get_tiles(), then the band's metadata is deleted
UnlinkBandOf(g, be) ==
    [k \in (DOMAIN be) \ {GetTiles(g)[i] : i \in DOMAIN GetTiles(g)} |-> be[k]]

UnlinkBand ==
    /\ nops < MaxOps
    /\ meta.linked
    /\ backend' = UnlinkBandOf(GlobalTileInfo(gti.lx, gti.scalaX, gti.ly, gti.scalaY,
                                               gti.xSize, gti.ySize, gti.tileSize), backend)
    /\ meta' = [meta EXCEPT !.linked = FALSE]
    /\ ret' = [op |-> "unlink", result |-> TRUE]
    /\ nops' = nops + 1
    /\ UNCHANGED <<gti, out, cache, pending, now, stored>>

\* a writable band that is new, or whose tile (0, 0) is stored
UnlinkInit ==
    /\ gti = GlobalTileInfo(0, 1, 0, -1, BandExtent, BandExtent, BandTileSize)
    /\ out = NoOut
    /\ \E old \in {<<>>, [k \in {<<0, 0>>} |-> FilledArray(BandTileSize, BandTileSize, 1)]} :
         /\ backend = [k \in DOMAIN old |-> EncodeTile(old[k])]
         /\ stored = [k \in DOMAIN old |-> [by |-> "write_tile", data |-> old[k]]]
    /\ cache = NewCache(GlobalCacheMaxSize)
    /\ pending = {}
    /\ now = 0
    /\ ret = [op |-> "none"]
    /\ nops = 0
    /\ meta = [readonly |-> FALSE, linked |-> TRUE]

\* writes on the band while it exists, then its unlink
UnlinkNext ==
    \/ \E k \in WrittenTiles, w \in TileWrites : meta.linked /\ WriteTile(k[1], k[2], w[1], w[2])
    \/ \E x0 \in 0..(BandTilesPerSide - 1), w \in RegionWrites, fail \in 0..1 :
           meta.linked /\ WriteRegion(x0, 0, w[1], w[2], w[3], fail)
    \/ \E t \in {BandTileSize, BandTileSize \div 2} : meta.linked /\ Resize(t)
    \/ UnlinkBand

SpecUnlink == UnlinkInit /\ [][UnlinkNext]_vars

\* C27: once the band is unlinked no tile blob of it remains on the backend.
UnlinkRemovesTiles == ~meta.linked => DOMAIN backend = {}

----------------------------------------------------------------------------
(* A resize() that raises.                                                 *)

\* C28: a resize(t) that raises leaves the read tile size, the tile counts,
\* get_tile_info and writeable() as they were before the call.
FailedResizeKeeps ==
    [][ (out'.op = "resize" /\ out'.raised) =>
            /\ gti'.reSize = gti.reSize
            /\ gti'.rangeX = gti.rangeX /\ gti'.rangeY = gti.rangeY
            /\ TileInfo(gti', 0, 0) = TileInfo(gti, 0, 0)
            /\ TileInfo(gti', 1, 1) = TileInfo(gti, 1, 1)
            /\ Writeable(gti') = Writeable(gti) ]_vars

----------------------------------------------------------------------------
(* create_dataset: a new band on the lattice of a source band.             *)

\* the lattice Band.__init__ builds from stored metadata: shape is (height, width)
BandLattice(md) ==
    GlobalTileInfo(md.lx, md.scalaX, md.ly, md.scalaY, md.shape[2], md.shape[1], md.tile_size)

\* the metadata create_dataset hands to create_band: transform and shape are
\* taken as get_grid_info() returns them
CreateDatasetOf(md, tileSize) ==
    LET info == GlobalTileInfo(md.lx, md.scalaX, md.ly, md.scalaY,
                               md.shape[2], md.shape[1], tileSize)
        grid == GridInfo(info)
    IN  [lx |-> grid.ox, scalaX |-> grid.sx, ly |-> grid.oy, scalaY |-> grid.sy,
         shape |-> grid.shape, tile_size |-> tileSize]

\* source rasters: widths and heights in pixels, and their upper-left corners
SourceLengths == {3, 4, 5, 9}

SourceCorners == {<<0, 0>>, <<3, -5>>}

CreateTileSizes == {BandTileSize, 2 * BandTileSize}

\* band.create_dataset(newPath, dataType, nodata, tileSize), then the new
\* band is opened and becomes the band at hand
CreateDataset(tileSize) ==
    \E md \in {CreateDatasetOf(stored, tileSize)} :
        /\ nops < MaxOps
        /\ stored' = md
        /\ gti' = BandLattice(md)
        /\ ret' = [op |-> "create_dataset", source |-> stored, tileSize |-> tileSize,
                   created |-> md]
        /\ nops' = nops + 1
        /\ UNCHANGED <<out, backend, cache, pending, now, meta>>

\* a source band of any width and height, opened
CreateInit ==
    /\ \E w \in SourceLengths, h \in SourceLengths, c \in SourceCorners :
         /\ stored = [lx |-> c[1], scalaX |-> 1, ly |-> c[2], scalaY |-> -1,
                      shape |-> <<h, w>>, tile_size |-> BandTileSize]
         /\ gti = BandLattice(stored)
    /\ out = NoOut
    /\ backend = <<>>
    /\ cache = NewCache(GlobalCacheMaxSize)
    /\ pending = {}
    /\ now = 0
    /\ ret = [op |-> "none"]
    /\ nops = 0
    /\ meta = [readonly |-> FALSE]

CreateNext == \E tileSize \in CreateTileSizes : CreateDataset(tileSize)

SpecCreate == CreateInit /\ [][CreateNext]_vars

\* the lattice of the source raster cut with the new tile size
SourceLattice(md, tileSize) ==
    GlobalTileInfo(md.lx, md.scalaX, md.ly, md.scalaY, md.shape[2], md.shape[1], tileSize)

\* C29: the band create_dataset creates opens with the lattice of its source
\* raster at the new tile size: same first-tile origin, same rangeX, same rangeY.
CreateKeepsLattice ==
    ret.op = "create_dataset" =>
        /\ gti.firstTileLeftX = SourceLattice(ret.source, ret.tileSize).firstTileLeftX
        /\ gti.firstTileLeftY = SourceLattice(ret.source, ret.tileSize).firstTileLeftY
        /\ gti.rangeX = SourceLattice(ret.source, ret.tileSize).rangeX
        /\ gti.rangeY = SourceLattice(ret.source, ret.tileSize).rangeY

----------------------------------------------------------------------------
(* copy() and configure() beside the calls that take the lock.             *)
(* pending holds the callers of set, get, has and delete; stored holds the *)
(* callers of copy() and configure().                                      *)

\* the thread that calls copy() / keys() / values() / items() and configure()
PlainThreads == {3}

\* the calls of the locking thread: <<op, key, value, expire>>
LockingCalls ==
    { <<"set", k, ValueOf(s), TickSeconds>> :
          k \in {<<0, 0>>, <<0, 1>>}, s \in {1, 2, CacheCapacity + 3} }
    \cup { <<o, <<1, 0>>, NoneValue, 0>> : o \in {"get", "has", "delete"} }

\* copy() starts with self._delete_expired(), before `with self._LOCK`: the
\* expiry map is copied and its expired keys are to be deleted
CopyBegin(t) ==
    /\ nops < MaxOps
    /\ stored = {}
    /\ stored' = {[thread |-> t, op |-> "copy", stage |-> "sweep",
                   todo |-> {k \in DOMAIN cache.EXPIRE : cache.EXPIRE[k] <= now},
                   key |-> <<0, 0>>, size |-> 0, free |-> 0, maxsize |-> 0]}
    /\ nops' = nops + 1
    /\ UNCHANGED <<gti, out, backend, cache, pending, now, ret, meta>>

\* _delete(key) of the sweep: `del self._CACHE[key]`; a key that is gone
\* (KeyError) only loses its expiry entry
SweepDelete(u) ==
    /\ u.op = "copy" /\ u.stage = "sweep"
    /\ \E k \in u.todo :
         IF k \in CacheKeys(cache)
         THEN /\ cache' = [cache EXCEPT !.CACHE = DropKeys(@, {k})]
              /\ stored' = {[u EXCEPT !.stage = "deleted", !.key = k, !.todo = @ \ {k},
                                      !.size = SizeOf(CacheValue(cache, k))]}
         ELSE /\ cache' = [cache EXCEPT !.EXPIRE = [x \in (DOMAIN @) \ {k} |-> @[x]]]
              /\ stored' = {[u EXCEPT !.todo = @ \ {k}]}
    /\ UNCHANGED <<gti, out, backend, pending, now, ret, nops, meta>>

\* `self.freeSize = self.freeSize + value_size` loads the counter ...
SweepLoad(u) ==
    /\ u.op = "copy" /\ u.stage = "deleted"
    /\ stored' = {[u EXCEPT !.stage = "loaded", !.free = cache.freeSize]}
    /\ UNCHANGED <<gti, out, backend, cache, pending, now, ret, nops, meta>>

\* ... and stores the sum; then `del self._EXPIRE_DICT[key]`
SweepCount(u) ==
    /\ u.op = "copy" /\ u.stage = "loaded"
    /\ cache' = [cache EXCEPT !.freeSize = u.free + u.size,
                              !.EXPIRE = [x \in (DOMAIN @) \ {u.key} |-> @[x]]]
    /\ stored' = {[u EXCEPT !.stage = "sweep"]}
    /\ UNCHANGED <<gti, out, backend, pending, now, ret, nops, meta>>

\* the sweep is over: `with self._LOCK: return self._CACHE.copy()`
CopyLocked(u) ==
    /\ u.op = "copy" /\ u.stage = "sweep" /\ u.todo = {}
    /\ LockFree(pending)
    /\ stored' = {}
    /\ ret' = [op |-> "copy", thread |-> u.thread, keys |-> CacheKeys(cache), raised |-> FALSE]
    /\ UNCHANGED <<gti, out, backend, cache, pending, now, nops, meta>>

\* configure(maxsize): `self.freeSize += (maxsize - self.maxsize)` loads ...
ConfigureLoad(t, m) ==
    /\ nops < MaxOps
    /\ stored = {}
    /\ stored' = {[thread |-> t, op |-> "configure", stage |-> "loaded", todo |-> {},
                   key |-> <<0, 0>>, size |-> 0, free |-> cache.freeSize, maxsize |-> m]}
    /\ nops' = nops + 1
    /\ UNCHANGED <<gti, out, backend, cache, pending, now, ret, meta>>

\* ... and stores the free size; then `self.maxsize = maxsize`
ConfigureStore(u) ==
    /\ u.op = "configure" /\ u.stage = "loaded"
    /\ cache' = [cache EXCEPT !.freeSize = u.free + (u.maxsize - cache.maxsize),
                              !.maxsize = u.maxsize]
    /\ stored' = {}
    /\ ret' = [op |-> "configure", thread |-> u.thread, maxsize |-> u.maxsize,
               raised |-> FALSE]
    /\ UNCHANGED <<gti, out, backend, pending, now, nops, meta>>

PlainInit ==
    /\ gti = GlobalTileInfo(0, 1, 0, -1, BandExtent, BandExtent, BandTileSize)
    /\ out = NoOut
    /\ backend = <<>>
    /\ cache \in { NewCache(CacheCapacity),
                   CacheSet(CacheSet(NewCache(CacheCapacity), <<0, 0>>, ValueOf(1),
                                     TickSeconds, 0).cache,
                            <<1, 0>>, ValueOf(2), 2 * TickSeconds, 0).cache }
    /\ pending = {}
    /\ now = 0
    /\ ret = [op |-> "none"]
    /\ stored = {}
    /\ nops = 0
    /\ meta = [readonly |-> FALSE]

\* a step of the thread that holds, takes or waits for _LOCK
LockedStep ==
    \/ \E p \in pending : RunLocked(p)
    \/ \E p \in pending : SetStore(p)
    \/ \E p \in pending : SetLoad(p)
    \/ \E p \in pending : SetCount(p)
    \/ \E p \in pending : SetExpire(p)

PlainNext ==
    \/ \E call \in LockingCalls : Invoke(1, call)
    \/ LockedStep
    \/ \E t \in PlainThreads : CopyBegin(t)
    \/ \E u \in stored : SweepDelete(u)
    \/ \E u \in stored : SweepLoad(u)
    \/ \E u \in stored : SweepCount(u)
    \/ \E u \in stored : CopyLocked(u)
    \/ \E t \in PlainThreads, m \in Capacities : ConfigureLoad(t, m)
    \/ \E u \in stored : ConfigureStore(u)
    \/ Tick

SpecCachePlain == PlainInit /\ [][PlainNext]_vars

\* C30: the entries, the expiry map and the free size change only in steps of
\* a thread that holds the lock.
MutationsUnderLock == [][ cache' # cache => LockedStep ]_vars

====
